---- MODULE Spec2Model ----
(***************************************************************************)
(* A model of the query planning, reranking, orchestration, query          *)
(* expansion, rank fusion and retrieval code of the a2a-mcp repository     *)
(* (src/api).                                                              *)
(*                                                                         *)
(* Text is modelled as a sequence of one-character strings over the small  *)
(* alphabet Chars.  A JSON value is a record [k, s]: k is its kind and s   *)
(* its text when it is a string.                                           *)
(***************************************************************************)
EXTENDS Integers, Sequences, FiniteSets, TLC

VARIABLES
    \* ---- QueryAnalyzer.plan_tasks (src/api/query_analyzer.py)
    pc,           \* position of the modelled call
    user_text,    \* argument user_text of plan_tasks
    llm_out,      \* outcome of self._llm.invoke(prompt)
    planned,      \* the list plan_tasks returned
    \* ---- reranking (src/api/rerank_utils.py, tools/rerank_tool.py,
    \*      tools/vector_search.py)
    rpc,          \* position of the modelled rerank call
    documents,    \* argument documents: the fused list, each with its score
    scorer,       \* the cross-encoder: "none", "ok" or "predict_raises"
    model_score,  \* what cross_encoder.predict returns, per document
    threshold,    \* argument threshold
    top_k,        \* argument top_k
    reranked,     \* what the call returned: [by, raised, docs]
    \* ---- AgentManager.answer (src/api/agents/agent_manager_mcp.py)
    tpc,          \* position in answer(): start, decided, loop, done, raised
    question,     \* argument question
    chat_history, \* argument chat_history, the caller's list
    decision,     \* what decide_tool returned: [tool, tasks]
    tasks,        \* orchestrate_answer: the planned tasks
    task_idx,     \* orchestrate_answer: index of the next task of the loop
    local_history,\* orchestrate_answer: the turn-local copy of chat_history
    last_location,\* orchestrate_answer: place captured from a snippet
    subtasks,     \* the SubtaskResults built so far
    tools_used,   \* the tools_used list built so far
    calls,        \* the external calls issued so far, with their outcomes
    response,     \* the dict answer() returned
    \* ---- query expansion, rank fusion and the retrieval entry points
    \*      (src/api/query_expansion.py, fusion_utils.py, langchain_utils.py,
    \*      private_agent.py, agents/agent_private.py, tools/*.py)
    epc,          \* position of the modelled call
    entry,        \* the entry point that was called
    rq_question,  \* argument question / query of the call
    rq_history,   \* argument chat_history: TRUE when it is non-empty
    paraphrase,   \* outcome of the paraphrase LLM call: [raises, lines]
    queries,      \* the query list the expansion returned
    query_results,\* argument query_results: one ranked list per query
    weights,      \* argument weights of fuse_with_weights
    fused,        \* what the fusion returned: [raised, docs]
    retrieval,    \* what the retrieval entry point returned, and its calls
    _effective_query, \* AdvancedRAGPipeline._effective_query
    \* ---- the local AgentManager.orchestrate_answer (src/api/agent_manager.py)
    apc,          \* position of the modelled call
    candidates,   \* the sub-questions with what their tool returned
    aggregated,   \* the dict orchestrate_answer returned
    \* ---- one CalculatorTool instance (src/api/tools/calculator_tool.py)
    kpc,          \* number of calls made on the instance
    _last_expr,   \* CalculatorTool._last_expr
    calc_call,    \* the last call on the instance: [op, arg, out]
    \* ---- two retrieval calls on one AdvancedRAGPipeline
    \*      (src/api/langchain_utils.py, private_agent.py)
    ipc,          \* position of each call
    icalls,       \* arguments and LLM outcome of each call
    computed_query, \* the effective query each call computed
    rerank_query, \* the query each call handed to apply_reranking
    \* ---- the WebAgent graph (src/api/agents/Web_App_Agent/agent.py)
    node,         \* the node to run next, "END", or "raised"
    implementation_steps, \* number of steps of the task plan
    mcp_tools,    \* WebAgent._mcp_tools: "None", "empty" or "some"
    graph_state,  \* the state dict passed from node to node
    steps_run,    \* the step indices the react agent was run for
    supersteps    \* number of nodes run so far

planVars == <<pc, user_text, llm_out, planned>>

rerankVars == <<rpc, documents, scorer, model_score, threshold, top_k, reranked>>

turnVars == <<tpc, question, chat_history, decision, tasks, task_idx, local_history,
              last_location, subtasks, tools_used, calls, response>>

retrVars == <<epc, entry, rq_question, rq_history, paraphrase, queries,
              query_results, weights, fused, retrieval, _effective_query>>

aggVars == <<apc, candidates, aggregated>>

calcVars == <<kpc, _last_expr, calc_call>>

pipeVars == <<ipc, icalls, computed_query, rerank_query>>

webVars == <<node, implementation_steps, mcp_tools, graph_state, steps_run, supersteps>>

lateVars == <<aggVars, calcVars, pipeVars, webVars>>

vars == <<planVars, rerankVars, turnVars, retrVars, lateVars>>

-----------------------------------------------------------------------------
(* Bounds of the model                                                     *)

\* longest JSON array the planner LLM is taken to return
MaxItems == 4

\* "Cap to 3 as contract"
MaxTasks == 3

\* longest document list handed to a reranker
MaxDocs == 3

\* largest top_k handed to a reranker
MaxTopK == 2

\* longest JSON array the planner LLM returns within a modelled turn
MaxPlanLen == 3

-----------------------------------------------------------------------------
(* Text                                                                    *)

Letters == {"h", "i", "s", "x"}
Digits  == {"7"}
OpChars == {"+"}
Chars   == Letters \cup Digits \cup OpChars \cup {" ", "?"}

RECURSIVE lstrip(_)
lstrip(s) == IF s # <<>> /\ Head(s) = " " THEN lstrip(Tail(s)) ELSE s

RECURSIVE rstrip(_)
rstrip(s) ==
    IF s # <<>> /\ s[Len(s)] = " " THEN rstrip(SubSeq(s, 1, Len(s) - 1)) ELSE s

\* str.strip()
strip(s) == rstrip(lstrip(s))

\* str.endswith("?")
endswith_q(s) == s # <<>> /\ s[Len(s)] = "?"

\* standalone[:1].isalpha()
first_isalpha(s) == s # <<>> /\ s[1] \in Letters

IsWordChar(c) == c \in Letters \cup Digits

\* the character at position i; a blank outside the text (regex \b at the ends)
char_at(s, i) == IF i \in 1..Len(s) THEN s[i] ELSE " "

\* re.search(r"\b(what|where|...|is|are|...)\b", s, re.I): over Chars the only
\* question word that can be spelled is "is".
has_question_word(s) ==
    \E p \in 1..(Len(s) - 1) :
        /\ s[p] = "i"
        /\ s[p + 1] = "s"
        /\ ~IsWordChar(char_at(s, p - 1))
        /\ ~IsWordChar(char_at(s, p + 2))

\* end (exclusive) of the longest run of characters of set S starting at i
RECURSIVE run_end(_, _, _)
run_end(s, i, S) ==
    IF i <= Len(s) /\ s[i] \in S THEN run_end(s, i + 1, S) ELSE i

\* _EXPR_REGEX matched at position i: <number> \s* <op> \s* <number>
expr_match_at(s, i) ==
    LET a == run_end(s, i, Digits)
        b == run_end(s, a, {" "})
        c == run_end(s, b + 1, {" "})
        d == run_end(s, c, Digits)
    IN  IF /\ a > i
           /\ b <= Len(s)
           /\ s[b] \in OpChars
           /\ d > c
        THEN SubSeq(s, i, a - 1) \o <<" ", s[b], " ">> \o SubSeq(s, c, d - 1)
        ELSE <<>>

\* _EXPR_REGEX.search(s), formatted "g1 g2 g3"; <<>> when there is no match
expr_search(s) ==
    LET hits == {i \in 1..Len(s) : expr_match_at(s, i) # <<>>}
    IN  IF hits = {} THEN <<>>
        ELSE expr_match_at(s, CHOOSE i \in hits : \A j \in hits : i <= j)

IsSafeChar(c) == c \in Digits \cup OpChars \cup {" "}

\* QueryAnalyzer._extract_expression; <<>> stands for None
extract_expression(text) ==
    IF text = <<>> THEN <<>>
    ELSE IF expr_search(text) # <<>> THEN expr_search(text)
    ELSE expr_search(strip(SelectSeq(text, IsSafeChar)))

-----------------------------------------------------------------------------
(* JSON values and the planner's reply                                     *)

Absent  == [k |-> "absent", s |-> <<>>]     \* the key is not in the dict
Null    == [k |-> "null",   s |-> <<>>]
Num     == [k |-> "num",    s |-> <<>>]     \* a non-zero number
Str(s)  == [k |-> "str",    s |-> s]

\* Python truthiness of a value read with dict.get
truthy(v) == v.k = "num" \/ (v.k = "str" /\ v.s # <<>>)

\* the 'tool' field: its text is kept as one TLA+ string
TAbsent == [k |-> "absent", s |-> ""]
TNull   == [k |-> "null",   s |-> ""]
TStr(s) == [k |-> "str",    s |-> s]

\* str(...).strip().lower() on the spellings of ToolSpellings
strip_lower(s) ==
    CASE s = " Weather " -> "weather"
      [] s = "CALC"      -> "calc"
      [] OTHER           -> s

_ALLOWED_TOOLS == {"rag", "calculator", "weather"}

\* one element of the JSON array: a dict (obj = TRUE) or any other value
Dict(tool, standalone, quest, location, expression) ==
    [obj |-> TRUE, tool |-> tool, standalone |-> standalone,
     question |-> quest, location |-> location, expression |-> expression]

NotADict == [obj |-> FALSE, tool |-> TAbsent, standalone |-> Absent,
             question |-> Absent, location |-> Absent, expression |-> Absent]

\* the elements the planner LLM is taken to produce
Items ==
    { Dict(TStr("vector_search"), Str(<<"i", "s", " ", "x">>), Absent, Absent, Absent),
      Dict(TStr(" Weather "), Str(<<"x", "?">>), Absent, Null, Absent),
      Dict(TStr("weather"), Absent, Str(<<"x">>), Absent, Absent),
      Dict(TStr("CALC"), Str(<<"7", "+", "7">>), Absent, Absent, Absent),
      Dict(TNull, Str(<<" ">>), Absent, Str(<<" ">>), Absent),
      Dict(TAbsent, Absent, Absent, Absent, Absent),
      Dict(TStr("rag"), Num, Absent, Absent, Absent),
      NotADict }

\* the reply text is a sequence of tokens: "[" and "]", other text "x", or one
\* JSON value (v)
Tok(c)   == [c |-> c, v |-> NotADict]
Val(v)   == [c |-> "val", v |-> v]

SeqsUpTo(S, n) == UNION {[1..k -> S] : k \in 0..n}

ValSeq(items) == [i \in 1..Len(items) |-> Val(items[i])]

Replies ==
    LET arrays == {<<Tok("[")>> \o ValSeq(a) \o <<Tok("]")>> : a \in SeqsUpTo(Items, MaxItems)}
        wrapped == {<<Tok("x"), Tok("[")>> \o ValSeq(a) \o <<Tok("]"), Tok("x")>> :
                        a \in SeqsUpTo(Items, 1)}
        broken ==
            { <<>>, <<Tok("x")>>, <<Tok("[")>>, <<Tok("]"), Tok("[")>>,
              <<Tok("["), Val(CHOOSE v \in Items : v.obj)>>,
              <<Tok("["), Val(CHOOSE v \in Items : v.obj), Tok("]"), Tok("]")>> }
        scalars == {<<Val(v)>> : v \in Items}
    IN  arrays \cup wrapped \cup broken \cup scalars

\* self._llm.invoke(prompt): it raises, or returns a reply
LlmOutcomes ==
    {[raises |-> TRUE, content |-> <<>>]}
        \cup {[raises |-> FALSE, content |-> r] : r \in Replies}

\* txt.find("["): 0 stands for -1
find_lb(txt) ==
    LET hits == {i \in 1..Len(txt) : txt[i].c = "["}
    IN  IF hits = {} THEN 0 ELSE CHOOSE i \in hits : \A j \in hits : i <= j

\* txt.rfind("]"): 0 stands for -1
rfind_rb(txt) ==
    LET hits == {i \in 1..Len(txt) : txt[i].c = "]"}
    IN  IF hits = {} THEN 0 ELSE CHOOSE i \in hits : \A j \in hits : i >= j

\* lines 101-104: cut the reply down to its outermost [...] block
extract_block(txt) ==
    LET start == find_lb(txt)
        end   == rfind_rb(txt)
    IN  IF start # 0 /\ end # 0 /\ end > start THEN SubSeq(txt, start, end) ELSE txt

\* json.loads on the tokens: a lone value, or "[" values "]"; anything else
\* raises.  (Replies never nests arrays.)
json_loads(txt) ==
    IF Len(txt) = 1 /\ txt[1].c = "val"
    THEN [ok |-> TRUE, list |-> FALSE, items |-> <<>>]
    ELSE IF /\ Len(txt) >= 2
            /\ txt[1].c = "["
            /\ txt[Len(txt)].c = "]"
            /\ \A i \in 2..(Len(txt) - 1) : txt[i].c = "val"
    THEN [ok |-> TRUE, list |-> TRUE, items |-> [i \in 1..(Len(txt) - 2) |-> txt[i + 1].v]]
    ELSE [ok |-> FALSE, list |-> FALSE, items |-> <<>>]

-----------------------------------------------------------------------------
(* QueryAnalyzer._post_process_tasks and plan_tasks                        *)

Task(tool, standalone, location, expression) ==
    [tool |-> tool, standalone |-> standalone,
     location |-> location, expression |-> expression]

\* lines 123-132: normalise the tool name
normalize_tool(t) ==
    LET tool0 == strip_lower(IF t.tool.k = "str" THEN t.tool.s ELSE "")
        tool1 == IF tool0 \in {"calc", "calculation"} THEN "calculator" ELSE tool0
        tool2 == IF tool1 = "vector_search" THEN "rag" ELSE tool1
    IN  IF tool2 \notin _ALLOWED_TOOLS THEN "direct" ELSE tool2

\* line 133, before .strip(): t.get("standalone") or t.get("question") or user_text or ""
standalone_source(t, text) ==
    IF truthy(t.standalone) THEN t.standalone
    ELSE IF truthy(t.question) THEN t.question
    ELSE Str(text)

\* line 133: .strip() exists on strings only
item_raises(t, text) == standalone_source(t, text).k # "str"

\* lines 133-137: strip, then add a trailing "?" to a question
standalone_of(t, text) ==
    LET s == strip(standalone_source(t, text).s)
    IN  IF s # <<>> /\ ~endswith_q(s) /\ first_isalpha(s) /\ has_question_word(s)
        THEN s \o <<"?">>
        ELSE s

\* lines 140-142
location_of(t) ==
    IF t.location.k = "absent" THEN Absent
    ELSE IF t.location.k = "str" /\ strip(t.location.s) # <<>> THEN t.location
    ELSE Null

\* lines 144-148
expression_of(t, standalone) ==
    LET found == extract_expression(standalone)
        expr  == IF truthy(t.expression) THEN t.expression
                 ELSE IF found # <<>> THEN Str(found) ELSE Null
    IN  IF truthy(expr) THEN expr ELSE Absent

post_process_item(t, text) ==
    LET standalone == standalone_of(t, text)
    IN  Task(normalize_tool(t), standalone, location_of(t), expression_of(t, standalone))

IsDict(v) == v.obj

NoCap(out) == out

\* line 151: return out[:3]
cap_tasks(out) == SubSeq(out, 1, IF Len(out) < MaxTasks THEN Len(out) ELSE MaxTasks)

\* _post_process_tasks: raised is TRUE when the loop raises (AttributeError)
post_process_tasks(parsed, text) ==
    LET dicts == IF parsed.list THEN SelectSeq(parsed.items, IsDict) ELSE <<>>
    IN  [raised |-> \E i \in 1..Len(dicts) : item_raises(dicts[i], text),
         out    |-> cap_tasks([i \in 1..Len(dicts) |-> post_process_item(dicts[i], text)])]

FallbackAsRag(text) == <<Task("rag", text, Absent, Absent)>>

\* line 113: the single direct task
fallback_tasks(text) == <<Task("direct", text, Absent, Absent)>>

\* QueryAnalyzer.plan_tasks
plan_tasks(raw_text, llm) ==
    LET text    == strip(raw_text)
        parsed  == json_loads(extract_block(llm.content))
        cleaned == post_process_tasks(parsed, text)
    IN  IF text = <<>> THEN <<>>
        ELSE IF llm.raises \/ ~parsed.ok \/ cleaned.raised THEN fallback_tasks(text)
        ELSE IF cleaned.out # <<>> THEN cleaned.out
        ELSE fallback_tasks(text)

-----------------------------------------------------------------------------
(* The planner checked on its own: one call of plan_tasks                  *)

UserTexts ==
    { <<>>, <<" ">>, <<"x">>, <<" ", "x", " ">>,
      <<"i", "s", " ", "x">>, <<"7", "+", "7">> }

IdlePlan ==
    /\ pc = "idle"
    /\ user_text = <<>>
    /\ llm_out = [raises |-> TRUE, content |-> <<>>]
    /\ planned = <<>>

IdleRerank ==
    /\ rpc = "idle"
    /\ documents = <<>>
    /\ scorer = "none"
    /\ model_score = <<>>
    /\ threshold = 0
    /\ top_k = 1
    /\ reranked = [by |-> "", raised |-> FALSE, docs |-> <<>>]

NoResponse == [answer |-> "none", sufficient |-> FALSE, has_subtasks |-> FALSE]

\* no retrieval response yet
NoRetrieval ==
    [raised |-> FALSE, rewrite |-> [raises |-> FALSE, text |-> <<>>],
     expand_arg |-> <<>>, rerank_arg |-> <<>>, effective_query |-> <<>>,
     searches |-> <<>>, retrieved_docs_count |-> 0, fused_docs_count |-> 0,
     final_docs_count |-> 0, rerank_top_k |-> 0]

NoFused == [raised |-> FALSE, docs |-> <<>>]

\* weights=None
NoWeights == [given |-> FALSE, list |-> <<>>]

IdleRetr ==
    /\ epc = "idle"
    /\ entry = ""
    /\ rq_question = <<>>
    /\ rq_history = FALSE
    /\ paraphrase = [raises |-> TRUE, lines |-> <<>>]
    /\ queries = <<>>
    /\ query_results = <<>>
    /\ weights = NoWeights
    /\ fused = NoFused
    /\ retrieval = NoRetrieval
    /\ _effective_query = "None"

NoAggregate ==
    [has_meta |-> FALSE, retrieved_docs_count |-> 0, fused_docs_count |-> 0,
     final_docs_count |-> 0, final_documents |-> <<>>]

NoCalcCall == [op |-> "", arg |-> <<>>, out |-> [error |-> "none", result |-> <<>>]]

Callers == {1, 2}

NoState == [coder_state |-> -1, status |-> "", mcp_tools |-> "absent"]

IdleAgg ==
    /\ apc = "idle"
    /\ candidates = <<>>
    /\ aggregated = NoAggregate

IdleCalc ==
    /\ kpc = 0
    /\ _last_expr = <<>>
    /\ calc_call = NoCalcCall

IdlePipe ==
    /\ ipc = [c \in Callers |-> "idle"]
    /\ icalls = <<>>
    /\ computed_query = [c \in Callers |-> <<>>]
    /\ rerank_query = [c \in Callers |-> <<>>]

IdleWeb ==
    /\ node = "idle"
    /\ implementation_steps = 0
    /\ mcp_tools = "None"
    /\ graph_state = NoState
    /\ steps_run = <<>>
    /\ supersteps = 0

IdleLate == IdleAgg /\ IdleCalc /\ IdlePipe /\ IdleWeb

IdleTurn ==
    /\ tpc = "idle"
    /\ question = <<>>
    /\ chat_history = <<>>
    /\ decision = [tool |-> "", tasks |-> <<>>]
    /\ tasks = <<>>
    /\ task_idx = 0
    /\ local_history = <<>>
    /\ last_location = "none"
    /\ subtasks = <<>>
    /\ tools_used = <<>>
    /\ calls = <<>>
    /\ response = NoResponse

InitPlan ==
    /\ pc = "call"
    /\ user_text \in UserTexts
    /\ llm_out \in LlmOutcomes
    /\ planned = <<>>
    /\ IdleRerank
    /\ IdleTurn
    /\ IdleRetr
    /\ IdleLate

PlanTasks ==
    /\ pc = "call"
    /\ planned' = plan_tasks(user_text, llm_out)
    /\ pc' = "returned"
    /\ UNCHANGED <<user_text, llm_out>>
    /\ UNCHANGED <<rerankVars, turnVars, retrVars, lateVars>>

NextPlan == PlanTasks

SpecPlan == InitPlan /\ [][NextPlan]_vars

\* the elements of the reply's array, when the reply parses as one
ReplyItems == json_loads(extract_block(llm_out.content)).items

ReplyIsArray ==
    /\ ~llm_out.raises
    /\ json_loads(extract_block(llm_out.content)).ok
    /\ json_loads(extract_block(llm_out.content)).list

\* the planner call failed: it raised, its text holds no JSON array, or the
\* array holds no task object
PlannerFailed ==
    \/ llm_out.raises
    \/ ~ReplyIsArray
    \/ \A i \in 1..Len(ReplyItems) : ~ReplyItems[i].obj

\* C1: for every user_text that is non-empty after stripping and every outcome
\* of the planner call, plan_tasks returns at least 1 and at most 3 tasks.
C1_OneToThreeTasks ==
    (pc = "returned" /\ strip(user_text) # <<>>)
        => (Len(planned) >= 1 /\ Len(planned) <= 3)

\* C1 witness: the reply held more than three task objects and the plan was cut
\* to three.
C1_Witness ==
    /\ pc = "returned"
    /\ ReplyIsArray
    /\ Len(SelectSeq(ReplyItems, IsDict)) > 3
    /\ Len(planned) = 3

\* C2: every task returned by plan_tasks has a non-empty standalone question,
\* also when the task object's 'standalone' is missing, empty or whitespace.
C2_StandaloneNonEmpty ==
    pc = "returned" => \A i \in 1..Len(planned) : planned[i].standalone # <<>>

-----------------------------------------------------------------------------
(* Reranking: CrossEncoderReranker.rerank_with_threshold, RerankTool.invoke *)
(* and VectorSearchTool._rerank_documents.  A document is [id, score]; the  *)
(* id stands for its content.  Scores are integers on one scale.            *)

FusionScores == {1, 2}
ModelScores  == {0, 1, 2}
Thresholds   == {0, 1, 2, 3}

Min(a, b) == IF a < b THEN a ELSE b

\* docs[:k] for k >= 0
first_k(docs, k) == SubSeq(docs, 1, Min(k, Len(docs)))

\* for doc, score in zip(documents, scores): doc.score = float(score)
with_model_scores(docs, ms) ==
    [i \in 1..Len(docs) |-> [id |-> docs[i].id, score |-> ms[i]]]

InsertBeforeEqual(sorted, d) ==
    LET hi == SelectSeq(sorted, LAMBDA x : x.score > d.score)
        lo == SelectSeq(sorted, LAMBDA x : x.score <= d.score)
    IN  hi \o <<d>> \o lo

\* place d behind every element whose score is >= d.score
RECURSIVE insert_desc(_, _)
insert_desc(sorted, d) ==
    IF sorted = <<>> THEN <<d>>
    ELSE IF Head(sorted).score >= d.score
         THEN <<Head(sorted)>> \o insert_desc(Tail(sorted), d)
         ELSE <<d>> \o sorted

SortAscending(docs) ==
    IF docs = <<>> THEN <<>>
    ELSE LET RECURSIVE asc(_)
             asc(r) == IF r = <<>> THEN <<>>
                       ELSE LET rest == asc(SubSeq(r, 1, Len(r) - 1))
                                d == r[Len(r)]
                                lo == SelectSeq(rest, LAMBDA x : x.score <= d.score)
                                hi == SelectSeq(rest, LAMBDA x : x.score > d.score)
                            IN  lo \o <<d>> \o hi
         IN  asc(docs)

\* list.sort(key=score, reverse=True): stable, descending
RECURSIVE sort_desc(_)
sort_desc(docs) ==
    IF docs = <<>> THEN <<>>
    ELSE insert_desc(sort_desc(SubSeq(docs, 1, Len(docs) - 1)), docs[Len(docs)])

\* [doc for doc in docs if doc.score >= threshold]
filter_threshold(docs, thr) == SelectSeq(docs, LAMBDA d : d.score >= thr)

\* CrossEncoderReranker.rerank_documents
rerank_documents(docs, k, sc, ms) ==
    IF sc = "none" THEN first_k(docs, k)
    ELSE IF docs = <<>> THEN <<>>
    ELSE IF sc = "predict_raises" THEN first_k(docs, k)
    ELSE first_k(sort_desc(with_model_scores(docs, ms)), k)

FilterWithoutFallback(docs, thr, k, sc, ms) ==
    filter_threshold(rerank_documents(docs, k, sc, ms), thr)

\* CrossEncoderReranker.rerank_with_threshold
rerank_with_threshold(docs, thr, k, sc, ms) ==
    LET reranked_docs == rerank_documents(docs, k, sc, ms)
        filtered_docs == filter_threshold(reranked_docs, thr)
    IN  IF filtered_docs = <<>> THEN first_k(reranked_docs, k) ELSE filtered_docs

\* RerankTool.invoke lines 29-35, the model loaded
rerank_tool_scored(docs, thr, k, ms) ==
    LET sorted   == sort_desc(with_model_scores(docs, ms))
        filtered == filter_threshold(sorted, thr)
    IN  first_k(IF filtered # <<>> THEN filtered ELSE first_k(sorted, k), k)

\* RerankTool.invoke: [raised, docs]
rerank_tool_invoke(docs, thr, k, sc, ms) ==
    IF sc = "none" \/ docs = <<>> THEN [raised |-> FALSE, docs |-> first_k(docs, k)]
    ELSE IF sc = "predict_raises" THEN [raised |-> TRUE, docs |-> <<>>]
    ELSE [raised |-> FALSE, docs |-> rerank_tool_scored(docs, thr, k, ms)]

\* VectorSearchTool._rerank_documents: [raised, docs]
vector_search_rerank(docs, thr, k, sc, ms) ==
    IF docs = <<>> THEN [raised |-> FALSE, docs |-> first_k(docs, k)]
    ELSE IF sc = "none" THEN [raised |-> FALSE, docs |-> first_k(docs, k)]
    ELSE IF sc = "predict_raises" THEN [raised |-> TRUE, docs |-> <<>>]
    ELSE LET sorted   == sort_desc(with_model_scores(docs, ms))
             filtered == filter_threshold(sorted, thr)
         IN  [raised |-> FALSE,
              docs |-> first_k(IF filtered # <<>> THEN filtered ELSE first_k(sorted, k), k)]

\* the fused lists handed in: sorted by fusion score, descending
DocLists ==
    UNION { { [i \in 1..n |-> [id |-> i, score |-> fs[i]]] :
                fs \in {f \in [1..n -> FusionScores] :
                            \A i \in 1..n : \A j \in i..n : f[i] >= f[j]} } :
            n \in 0..MaxDocs }

InitRerank ==
    /\ rpc = "call"
    /\ documents \in DocLists
    /\ scorer \in {"none", "ok", "predict_raises"}
    /\ model_score \in [1..Len(documents) -> ModelScores]
    /\ threshold \in Thresholds
    /\ top_k \in 1..MaxTopK
    /\ reranked = [by |-> "", raised |-> FALSE, docs |-> <<>>]
    /\ IdlePlan
    /\ IdleTurn
    /\ IdleRetr
    /\ IdleLate

RerankWithThreshold ==
    /\ rpc = "call"
    /\ reranked' = [by |-> "rerank_utils", raised |-> FALSE,
                    docs |-> rerank_with_threshold(documents, threshold, top_k,
                                                   scorer, model_score)]
    /\ rpc' = "returned"
    /\ UNCHANGED <<documents, scorer, model_score, threshold, top_k>>
    /\ UNCHANGED <<planVars, turnVars, retrVars, lateVars>>

RerankToolInvoke ==
    /\ rpc = "call"
    /\ LET r == rerank_tool_invoke(documents, threshold, top_k, scorer, model_score)
       IN  reranked' = [by |-> "rerank_tool", raised |-> r.raised, docs |-> r.docs]
    /\ rpc' = "returned"
    /\ UNCHANGED <<documents, scorer, model_score, threshold, top_k>>
    /\ UNCHANGED <<planVars, turnVars, retrVars, lateVars>>

VectorSearchRerank ==
    /\ rpc = "call"
    /\ LET r == vector_search_rerank(documents, threshold, top_k, scorer, model_score)
       IN  reranked' = [by |-> "vector_search", raised |-> r.raised, docs |-> r.docs]
    /\ rpc' = "returned"
    /\ UNCHANGED <<documents, scorer, model_score, threshold, top_k>>
    /\ UNCHANGED <<planVars, turnVars, retrVars, lateVars>>

NextRerank == RerankWithThreshold \/ RerankToolInvoke \/ VectorSearchRerank

SpecRerank == InitRerank /\ [][NextRerank]_vars

\* the model scored every document
Scored == rpc = "returned" /\ scorer = "ok" /\ ~reranked.raised

\* positions of the documents whose model score reaches the threshold
Passing == {i \in 1..Len(documents) : model_score[i] >= threshold}

\* the returned documents are distinct input documents carrying their model score
CarryModelScores ==
    /\ \A i \in 1..Len(reranked.docs) :
          /\ reranked.docs[i].id \in 1..Len(documents)
          /\ reranked.docs[i].score = model_score[reranked.docs[i].id]
    /\ \A i, j \in 1..Len(reranked.docs) :
          reranked.docs[i].id = reranked.docs[j].id => i = j

ReturnedIds == {reranked.docs[i].id : i \in 1..Len(reranked.docs)}

SortedDescending ==
    \A i \in 1..Len(reranked.docs) : \A j \in i..Len(reranked.docs) :
        reranked.docs[i].score >= reranked.docs[j].score

\* C8: if every document scores below threshold, rerank returns exactly
\* min(topK, len(documents)) documents, the top-scored ones, and never an empty
\* list when documents was non-empty.
C8_ThresholdEmptyFallback ==
    (Scored /\ documents # <<>> /\ Passing = {})
        => /\ Len(reranked.docs) = Min(top_k, Len(documents))
           /\ reranked.docs # <<>>
           /\ CarryModelScores
           /\ \A i \in ReturnedIds : \A j \in (1..Len(documents)) \ ReturnedIds :
                  model_score[i] >= model_score[j]

\* C8 witness: three documents all score below the threshold and top_k cuts the
\* fallback to two.
C8_Witness ==
    /\ Scored
    /\ Len(documents) = 3
    /\ Passing = {}
    /\ top_k = 2
    /\ Len(reranked.docs) = 2

\* C9: when the scoring model is unavailable, rerank returns exactly the first
\* min(topK, len(documents)) input documents, in input order and with their
\* scores unchanged, for every threshold.
C9_PassThrough ==
    (rpc = "returned" /\ scorer = "none")
        => reranked.docs = SubSeq(documents, 1, Min(top_k, Len(documents)))

\* C10: when at least one document scores >= threshold, rerank returns exactly
\* the documents whose model score is >= threshold, sorted by model score
\* descending and cut to top_k, each an input document with its model score.
C10_FilterSortTruncate ==
    (Scored /\ Passing # {})
        => /\ Len(reranked.docs) = Min(top_k, Cardinality(Passing))
           /\ CarryModelScores
           /\ ReturnedIds \subseteq Passing
           /\ SortedDescending
           /\ \A i \in ReturnedIds : \A j \in Passing \ ReturnedIds :
                  model_score[i] >= model_score[j]

\* C10 witness: some documents pass and some do not, more pass than top_k
\* allows, and the list was reordered.
C10_Witness ==
    /\ Scored
    /\ Cardinality(Passing) > top_k
    /\ Passing # 1..Len(documents)
    /\ Len(reranked.docs) = top_k
    /\ reranked.docs[1].id # 1

-----------------------------------------------------------------------------
(* One turn of AgentManager.answer (src/api/agents/agent_manager_mcp.py).   *)
(* Every external call (MCP connect, planner LLM, MCP tool call, answer     *)
(* LLM) returns a value or raises; calls logs them in the order issued.     *)

Msg(role, text, ref) == [role |-> role, text |-> text, ref |-> ref]

\* the location argument of a call: none, the planned one or a captured one
NoLocation == [plan |-> <<>>, captured |-> "none"]

Call(tool, task, outcome) == [tool |-> tool, task |-> task, outcome |-> outcome, loc |-> NoLocation]

\* a SubtaskResult; a key the code leaves out reads as "none" (dict.get)
Sub(type, quest, snippets, error, result, status) ==
    [type |-> type, question |-> quest, snippets |-> snippets,
     error |-> error, result |-> result, status |-> status]

\* _looks_like_greeting: over Chars the only greeting that can be spelled is "hi"
looks_like_greeting(q) ==
    LET text == strip(q)
    IN  /\ Len(text) <= 40
        /\ \E p \in 1..(Len(text) - 1) :
              /\ text[p] = "h"
              /\ text[p + 1] = "i"
              /\ ~IsWordChar(char_at(text, p - 1))
              /\ ~IsWordChar(char_at(text, p + 2))

\* AgentManager._extract_calculation_expression
extract_calculation_expression(q) ==
    IF expr_search(q) # <<>> THEN expr_search(q)
    ELSE strip(SelectSeq(q, IsSafeChar))

\* re.search(r"(?:headquarter(?:ed)?|based|located) in ([^.,]+)", snippet)
\* "none": no match; "": the captured group is blank, m.group(1).strip() == ""
capture_location(snippet) ==
    CASE snippet = "based in Hanoi"  -> "Hanoi"
      [] snippet = "located in Hue"  -> "Hue"
      [] snippet = "located in  ."   -> ""
      [] OTHER                       -> "none"

TurnQuestions ==
    { <<>>, <<" ">>, <<"h", "i">>, <<" ", "x">>, <<"i", "s", " ", "x">> }

TurnHistories ==
    { <<>>, <<Msg("human", <<"x">>, ""), Msg("ai", <<>>, "earlier answer")>> }

TurnItems ==
    { Dict(TStr("vector_search"), Str(<<"i", "s", " ", "x">>), Absent, Absent, Absent),
      Dict(TStr("calculator"), Str(<<"7", "+", "7">>), Absent, Absent, Absent),
      Dict(TStr("weather"), Str(<<"x", "?">>), Absent, Null, Absent),
      Dict(TStr("weather"), Str(<<"x", "?">>), Absent, Str(<<"x">>), Absent),
      Dict(TNull, Str(<<"x">>), Absent, Absent, Absent) }

TurnLlmOutcomes ==
    {[raises |-> TRUE, content |-> <<>>]}
        \cup {[raises |-> FALSE, content |-> <<Tok("[")>> \o ValSeq(a) \o <<Tok("]")>>] :
                 a \in SeqsUpTo(TurnItems, MaxPlanLen)}

\* what the vector_search tool sends back
RagOutcomes ==
    { [kind |-> "ok", snippets |-> <<>>],
      [kind |-> "ok", snippets |-> <<"founded in 1999">>],
      [kind |-> "ok", snippets |-> <<"based in Hanoi", "founded in 1999">>],
      [kind |-> "ok", snippets |-> <<"founded in 1999", "located in Hue">>],
      [kind |-> "ok", snippets |-> <<"located in  .">>],
      [kind |-> "error", snippets |-> <<>>],
      [kind |-> "raise", snippets |-> <<>>] }

\* what the calculator tool sends back: {"result": r} or {"error": e, "result": None}
CalcOutcomes ==
    { [kind |-> "ok", result |-> "14", error |-> "none"],
      [kind |-> "error", result |-> "none", error |-> "unsupported expression"],
      [kind |-> "raise", result |-> "none", error |-> "none"] }

\* what the weather tool sends back: a status, or {"error": ...} without one
WeatherOutcomes ==
    { [kind |-> "ok", status |-> "sunny"],
      [kind |-> "error", status |-> "none"],
      [kind |-> "raise", status |-> "none"] }

LlmCallOutcomes == {"ok", "raise"}

\* the planner is invoked only for a question that is not blank (line 58)
planner_calls(q, llm) ==
    IF strip(q) = <<>> THEN <<>>
    ELSE <<Call("planner", 0, IF llm.raises THEN "raise" ELSE "ok")>>

\* decide_tool lines 179-189
decide(t) ==
    IF Len(t) > 1 THEN [tool |-> "multi", tasks |-> t]
    ELSE IF t = <<>> THEN [tool |-> "direct", tasks |-> <<>>]
    ELSE [tool |-> t[1].tool, tasks |-> t]

SufficientIgnoringRag(subs) ==
    \A i \in 1..Len(subs) : subs[i].type # "calculator" \/ subs[i].error = "none"

\* orchestrate_answer lines 289-293
sufficient_of(subs) ==
    \A i \in 1..Len(subs) :
        /\ (subs[i].type # "calculator" \/ subs[i].error = "none")
        /\ (subs[i].type # "rag" \/ subs[i].snippets # <<>>)

\* agent_manager.py lines 323-328: the same verdict computed by a loop
RECURSIVE sufficient_loop(_, _)
sufficient_loop(subs, acc) ==
    IF subs = <<>> THEN acc
    ELSE LET st == Head(subs)
             a1 == IF st.type = "rag" /\ st.snippets = <<>> THEN FALSE ELSE acc
             a2 == IF st.type = "calculator" /\ st.error # "none" THEN FALSE ELSE a1
         IN  sufficient_loop(Tail(subs), a2)

Answered(suff, has_subtasks) ==
    [answer |-> "text", sufficient |-> suff, has_subtasks |-> has_subtasks]

InitTurn ==
    /\ tpc = "start"
    /\ question \in TurnQuestions
    /\ chat_history \in TurnHistories
    /\ decision = [tool |-> "", tasks |-> <<>>]
    /\ tasks = <<>>
    /\ task_idx = 0
    /\ local_history = <<>>
    /\ last_location = "none"
    /\ subtasks = <<>>
    /\ tools_used = <<>>
    /\ calls = <<>>
    /\ response = NoResponse
    /\ IdlePlan
    /\ IdleRerank
    /\ IdleRetr
    /\ IdleLate

\* answer lines 377-379: a greeting is answered by the LLM, without tools
AnswerGreeting ==
    /\ tpc = "start"
    /\ looks_like_greeting(question)
    /\ \E llm \in LlmCallOutcomes :
          /\ calls' = Append(calls, Call("direct_answer", 0, llm))
          /\ IF llm = "raise"
             THEN tpc' = "raised" /\ UNCHANGED response
             ELSE tpc' = "done" /\ response' = Answered(TRUE, FALSE)
    /\ UNCHANGED <<question, chat_history, decision, tasks, task_idx, local_history,
                   last_location, subtasks, tools_used>>
    /\ UNCHANGED <<planVars, rerankVars, retrVars, lateVars>>

\* answer line 381: decide_tool connects to the MCP server and plans
DecideTool ==
    /\ tpc = "start"
    /\ ~looks_like_greeting(question)
    /\ \E conn \in LlmCallOutcomes, llm \in TurnLlmOutcomes :
          IF conn = "raise"
          THEN /\ calls' = Append(calls, Call("mcp_connect", 0, "raise"))
               /\ tpc' = "raised"
               /\ UNCHANGED decision
          ELSE /\ calls' = calls \o <<Call("mcp_connect", 0, "ok")>>
                                 \o planner_calls(question, llm)
               /\ decision' = decide(plan_tasks(question, llm))
               /\ tpc' = "decided"
    /\ UNCHANGED <<question, chat_history, tasks, task_idx, local_history,
                   last_location, subtasks, tools_used, response>>
    /\ UNCHANGED <<planVars, rerankVars, retrVars, lateVars>>

\* the same list object under a second name
SameObject(l) == [items |-> l, shared |-> TRUE]

\* line 207, list(chat_history or []): a new list object with the same items
list_copy(l) == [items |-> l, shared |-> FALSE]

\* the caller's list after local_history.extend(...): it grows too when both
\* names are bound to one object
caller_list(extended) ==
    IF list_copy(chat_history).shared THEN extended ELSE chat_history

\* orchestrate_answer lines 202-212: plan again and set up the loop.  decision
\* is not read again once answer() has dispatched on it.
OrchestratePlan ==
    /\ tpc = "decided"
    /\ decision.tool = "multi"
    /\ \E llm \in TurnLlmOutcomes :
          /\ tasks' = plan_tasks(question, llm)
          /\ calls' = calls \o planner_calls(question, llm)
    /\ decision' = [tool |-> "multi", tasks |-> <<>>]
    /\ local_history' = list_copy(chat_history).items
    /\ subtasks' = <<>>
    /\ tools_used' = <<>>
    /\ last_location' = "none"
    /\ task_idx' = 1
    /\ tpc' = "loop"
    /\ UNCHANGED <<question, chat_history, response>>
    /\ UNCHANGED <<planVars, rerankVars, retrVars, lateVars>>

InLoop == tpc = "loop" /\ task_idx <= Len(tasks)

\* line 216
standalone_in_loop ==
    strip(IF tasks[task_idx].standalone # <<>> THEN tasks[task_idx].standalone
          ELSE question)

\* lines 233-253
ExecRag ==
    /\ InLoop
    /\ tasks[task_idx].tool = "rag"
    /\ \E out \in RagOutcomes :
          /\ calls' = Append(calls, Call("vector_search", task_idx, out.kind))
          /\ IF out.kind = "raise"
             THEN /\ tpc' = "raised"
                  /\ UNCHANGED <<task_idx, local_history, last_location, subtasks,
                                 tools_used>>
             ELSE /\ tools_used' = Append(tools_used, "rag_retrieval")
                  /\ subtasks' = Append(subtasks,
                        Sub("rag", standalone_in_loop, out.snippets, "none", "none", "none"))
                  /\ IF out.snippets # <<>>
                     THEN /\ local_history' = local_history \o
                                <<Msg("human", standalone_in_loop, ""),
                                  Msg("ai", <<>>, out.snippets[1])>>
                          /\ last_location' =
                                IF capture_location(out.snippets[1]) # "none"
                                THEN capture_location(out.snippets[1])
                                ELSE last_location
                     ELSE UNCHANGED <<local_history, last_location>>
                  /\ task_idx' = task_idx + 1
                  /\ UNCHANGED tpc
    /\ chat_history' = caller_list(local_history')
    /\ UNCHANGED <<question, decision, tasks, response>>
    /\ UNCHANGED <<planVars, rerankVars, retrVars, lateVars>>

\* lines 255-269
ExecCalculator ==
    /\ InLoop
    /\ tasks[task_idx].tool = "calculator"
    /\ \E out \in CalcOutcomes :
          /\ calls' = Append(calls, Call("calculator", task_idx, out.kind))
          /\ IF out.kind = "raise"
             THEN /\ tpc' = "raised"
                  /\ UNCHANGED <<task_idx, local_history, subtasks, tools_used>>
             ELSE /\ tools_used' = Append(tools_used, "calculator")
                  /\ subtasks' = Append(subtasks,
                        Sub("calculator", standalone_in_loop, <<>>, out.error,
                            out.result, "none"))
                  /\ local_history' = local_history \o
                        <<Msg("human", standalone_in_loop, ""),
                          Msg("ai", <<>>, out.result)>>
                  /\ task_idx' = task_idx + 1
                  /\ UNCHANGED tpc
    /\ chat_history' = caller_list(local_history')
    /\ UNCHANGED <<question, decision, tasks, last_location, response>>
    /\ UNCHANGED <<planVars, rerankVars, retrVars, lateVars>>

\* line 272 and use_weather lines 142-144: task.get("location") or
\* last_location, put in the payload only when it is truthy
weather_location(task, last) ==
    IF truthy(task.location) THEN [plan |-> task.location.s, captured |-> "none"]
    ELSE IF last # "none" /\ last # "" THEN [plan |-> <<>>, captured |-> last]
    ELSE NoLocation

\* the weather call of line 273 with its location argument
WeatherCall(task, outcome, loc) == [Call("weather", task, outcome) EXCEPT !.loc = loc]

\* lines 271-286
ExecWeather ==
    /\ InLoop
    /\ tasks[task_idx].tool = "weather"
    /\ \E out \in WeatherOutcomes :
          /\ calls' = Append(calls, WeatherCall(task_idx, out.kind,
                            weather_location(tasks[task_idx], last_location)))
          /\ IF out.kind = "raise"
             THEN /\ tpc' = "raised"
                  /\ UNCHANGED <<task_idx, local_history, subtasks, tools_used>>
             ELSE /\ tools_used' = Append(tools_used, "weather")
                  /\ subtasks' = Append(subtasks,
                        Sub("weather", standalone_in_loop, <<>>, "none", "none",
                            out.status))
                  /\ local_history' = local_history \o
                        <<Msg("human", standalone_in_loop, ""),
                          Msg("ai", <<>>, out.status)>>
                  /\ task_idx' = task_idx + 1
                  /\ UNCHANGED tpc
    /\ chat_history' = caller_list(local_history')
    /\ UNCHANGED <<question, decision, tasks, last_location, response>>
    /\ UNCHANGED <<planVars, rerankVars, retrVars, lateVars>>

\* a task planned as 'direct': line 219 tests `tool is None`, the planner writes
\* the string "direct", so no branch of the loop body runs for it
ExecDirect ==
    /\ InLoop
    /\ tasks[task_idx].tool = "direct"
    /\ task_idx' = task_idx + 1
    /\ UNCHANGED <<tpc, question, chat_history, decision, tasks, local_history,
                   last_location, subtasks, tools_used, calls, response>>
    /\ UNCHANGED <<planVars, rerankVars, retrVars, lateVars>>

\* lines 288-302: the verdict, then generate_final_answer
Finish ==
    /\ tpc = "loop"
    /\ task_idx > Len(tasks)
    /\ \E llm \in LlmCallOutcomes :
          /\ calls' = Append(calls, Call("synthesizer", 0, llm))
          /\ IF llm = "raise"
             THEN tpc' = "raised" /\ UNCHANGED response
             ELSE tpc' = "done" /\ response' = Answered(sufficient_of(subtasks), TRUE)
    /\ UNCHANGED <<question, chat_history, decision, tasks, task_idx, local_history,
                   last_location, subtasks, tools_used>>
    /\ UNCHANGED <<planVars, rerankVars, retrVars, lateVars>>

\* the tail shared by the single-intent paths: the tool call, then the answer LLM
single_path(tool, kind, sub, used, suff) ==
    \E llm \in LlmCallOutcomes :
        IF kind = "raise"
        THEN /\ calls' = Append(calls, Call(tool, 0, kind))
             /\ tpc' = "raised"
             /\ UNCHANGED <<subtasks, tools_used, response>>
        ELSE /\ calls' = calls \o <<Call(tool, 0, kind), Call("synthesizer", 0, llm)>>
             /\ subtasks' = <<sub>>
             /\ IF llm = "raise"
                THEN tpc' = "raised" /\ UNCHANGED <<tools_used, response>>
                ELSE /\ tpc' = "done"
                     /\ tools_used' = <<used>>
                     /\ response' = Answered(suff, TRUE)

\* answer lines 388-397
SingleWeather ==
    /\ tpc = "decided"
    /\ decision.tool = "weather"
    /\ \E out \in WeatherOutcomes :
          single_path("weather", out.kind,
                      Sub("weather", question, <<>>, "none", "none", out.status),
                      "weather", TRUE)
    /\ UNCHANGED <<question, chat_history, decision, tasks, task_idx, local_history,
                   last_location>>
    /\ UNCHANGED <<planVars, rerankVars, retrVars, lateVars>>

CalcAlwaysSufficient(out) == TRUE

\* answer line 408
single_calc_sufficient(out) == out.error = "none"

\* answer lines 399-409
SingleCalculator ==
    /\ tpc = "decided"
    /\ decision.tool = "calculator"
    /\ \E out \in CalcOutcomes :
          single_path("calculator", out.kind,
                      Sub("calculator", question, <<>>, out.error, out.result, "none"),
                      "calculator", single_calc_sufficient(out))
    /\ UNCHANGED <<question, chat_history, decision, tasks, task_idx, local_history,
                   last_location>>
    /\ UNCHANGED <<planVars, rerankVars, retrVars, lateVars>>

\* answer lines 411-429: every other decision, 'direct' included, goes to RAG
SingleRag ==
    /\ tpc = "decided"
    /\ decision.tool \notin {"multi", "weather", "calculator"}
    /\ \E out \in RagOutcomes :
          single_path("vector_search", out.kind,
                      Sub("rag", question, out.snippets, "none", "none", "none"),
                      "rag_retrieval", out.snippets # <<>>)
    /\ UNCHANGED <<question, chat_history, decision, tasks, task_idx, local_history,
                   last_location>>
    /\ UNCHANGED <<planVars, rerankVars, retrVars, lateVars>>

NextTurn ==
    \/ AnswerGreeting
    \/ DecideTool
    \/ OrchestratePlan
    \/ ExecRag
    \/ ExecCalculator
    \/ ExecWeather
    \/ ExecDirect
    \/ Finish
    \/ SingleWeather
    \/ SingleCalculator
    \/ SingleRag

SpecTurn == InitTurn /\ [][NextTurn]_vars

\* answer() has returned or raised
Terminal == tpc \in {"done", "raised"}

\* the turn went through orchestrate_answer
Orchestrated == task_idx > 0

\* C4: every turn with a non-empty question ends in Done with an answer text;
\* no failure of an external call escapes answer() as an exception.
C4_AnswerAlwaysReturned ==
    (Terminal /\ strip(question) # <<>>)
        => (tpc = "done" /\ response.answer = "text")

FailedCall(c) == c.task > 0 /\ c.outcome \in {"error", "raise"}

\* task i has a SubtaskResult whose error field is set
ErrorRecorded(i) ==
    \E k \in 1..Len(subtasks) :
        /\ subtasks[k].type = tasks[i].tool
        /\ subtasks[k].question = tasks[i].standalone
        /\ subtasks[k].error # "none"

\* C5: when the capability call of task i fails (an error value or a raise),
\* the failure is recorded in task i's SubtaskResult.error and every later
\* task is still executed.
C5_FailureRecordedLoopContinues ==
    (Terminal /\ Orchestrated)
        => \A n \in 1..Len(calls) :
              FailedCall(calls[n])
                  => (ErrorRecorded(calls[n].task) /\ task_idx > Len(tasks))

\* C6: when orchestrate_answer finishes, subtasks holds exactly one
\* SubtaskResult per planned task, the k-th for the k-th task (same standalone
\* question and type).
C6_OneSubtaskPerTask ==
    (tpc = "done" /\ Orchestrated)
        => /\ Len(subtasks) = Len(tasks)
           /\ \A k \in 1..Len(subtasks) :
                 /\ subtasks[k].type = tasks[k].tool
                 /\ subtasks[k].question = tasks[k].standalone

\* the verdict the claim states
ClaimedSufficient ==
    \A k \in 1..Len(subtasks) :
        /\ (subtasks[k].type # "calculator" \/ subtasks[k].error = "none")
        /\ (subtasks[k].type # "rag" \/ subtasks[k].snippets # <<>>)

\* C7: the sufficient flag returned for a turn equals the conjunction, over all
\* its subtasks, of (type is not calculator or error is null) and (type is not
\* rag or its snippet list is non-empty), in orchestrate_answer and in the
\* single-task paths of answer(); the loop of agent_manager.py gives the same
\* verdict for the same subtasks.
C7_SufficientIsConjunction ==
    tpc = "done"
        => /\ response.sufficient = ClaimedSufficient
           /\ sufficient_loop(subtasks, TRUE) = ClaimedSufficient

\* C7 witness: an orchestrated turn with a failed calculation beside a weather
\* subtask was answered with sufficient = false.
C7_Witness ==
    /\ tpc = "done"
    /\ Orchestrated
    /\ \E k \in 1..Len(subtasks) :
          subtasks[k].type = "calculator" /\ subtasks[k].error # "none"
    /\ \E k \in 1..Len(subtasks) : subtasks[k].type = "weather"
    /\ ~response.sufficient

-----------------------------------------------------------------------------
(* Query expansion: ExpansionTool.invoke, VectorSearchTool._expand_query    *)
(* and query_expansion.get_all_queries.  A query is a text over QChars; the *)
(* paraphrase reply is the list of its raw lines (response.text split at   *)
(* newlines), or the call raises.                                          *)

\* most raw lines in a paraphrase reply
MaxLines == 3

QChars == {"a", "A", "b", " "}

\* str.lower()
lower(s) == [i \in 1..Len(s) |-> IF s[i] = "A" THEN "a" ELSE s[i]]

\* the query argument
ExpQueries == {<<>>, <<" ">>, <<"a">>, <<"A">>, <<" ", "a">>, <<"b">>}

\* one raw line of the reply
LineTexts == {<<>>, <<"a">>, <<"A">>, <<"a", " ">>, <<"b">>}

\* text.split("\n") has at least one element
ParaphraseOutcomes ==
    {[raises |-> TRUE, lines |-> <<>>]} \cup
    {[raises |-> FALSE, lines |-> l] : l \in SeqsUpTo(LineTexts, MaxLines) \ {<<>>}}

\* [l.strip() for l in text.split("\n") if l.strip()]
stripped_lines(raw) ==
    SelectSeq([i \in 1..Len(raw) |-> strip(raw[i])], LAMBDA l : l # <<>>)

\* ExpansionTool._expand_query and VectorSearchTool._expand_query
_expand_query(original_query, out) ==
    IF out.raises THEN <<original_query>>
    ELSE LET lines == stripped_lines(out.lines)
         IN  IF lines # <<>> THEN lines ELSE <<original_query>>

\* x in list
in_list(x, l) == \E i \in 1..Len(l) : l[i] = x

\* ExpansionTool.invoke lines 67-73: keep the first entry of every key
RECURSIVE dedup(_, _)
dedup(qs, seen) ==
    IF qs = <<>> THEN <<>>
    ELSE LET key == strip(lower(Head(qs)))
         IN  IF key # <<>> /\ key \notin seen
             THEN <<Head(qs)>> \o dedup(Tail(qs), seen \cup {key})
             ELSE dedup(Tail(qs), seen)

\* ExpansionTool.invoke
expansion_tool_invoke(query, out) ==
    LET qs0 == _expand_query(query, out)
        qs1 == IF /\ query # <<>>
                  /\ (qs0 = <<>> \/ lower(strip(qs0[1])) # lower(strip(query)))
                  /\ ~in_list(query, qs0)
               THEN <<query>> \o qs0
               ELSE qs0
    IN  dedup(qs1, {})

\* [original_query] * 3
three_times(q) == <<q, q, q>>

\* query_expansion.expand_query
expand_query(original_query, out) ==
    IF out.raises THEN three_times(original_query)
    ELSE LET expanded_queries == stripped_lines(out.lines)
             n == Len(expanded_queries)
         IN  IF n >= 3 THEN SubSeq(expanded_queries, 1, 3)
             ELSE IF n > 0
                  THEN expanded_queries
                       \o [i \in 1..(3 - n) |-> expanded_queries[n]]
                  ELSE three_times(original_query)

\* query_expansion.get_all_queries
get_all_queries(original_query, out) ==
    <<original_query>> \o expand_query(original_query, out)

InitExpand ==
    /\ epc = "call"
    /\ entry = ""
    /\ rq_question \in ExpQueries
    /\ rq_history = FALSE
    /\ paraphrase \in ParaphraseOutcomes
    /\ queries = <<>>
    /\ query_results = <<>>
    /\ weights = NoWeights
    /\ fused = NoFused
    /\ retrieval = NoRetrieval
    /\ _effective_query = "None"
    /\ IdlePlan
    /\ IdleRerank
    /\ IdleTurn
    /\ IdleLate

Expanded(name, qs) ==
    /\ epc = "call"
    /\ epc' = "returned"
    /\ entry' = name
    /\ queries' = qs
    /\ UNCHANGED <<rq_question, rq_history, paraphrase, query_results, weights,
                   fused, retrieval, _effective_query>>
    /\ UNCHANGED <<planVars, rerankVars, turnVars, lateVars>>

ExpansionToolInvoke ==
    Expanded("ExpansionTool.invoke", expansion_tool_invoke(rq_question, paraphrase))

VectorSearchExpand ==
    Expanded("VectorSearchTool._expand_query", _expand_query(rq_question, paraphrase))

GetAllQueries ==
    Expanded("get_all_queries", get_all_queries(rq_question, paraphrase))

NextExpand ==
    \/ ExpansionToolInvoke
    \/ VectorSearchExpand
    \/ GetAllQueries

SpecExpand == InitExpand /\ [][NextExpand]_vars

\* no two entries are equal when case is ignored
NoCaseInsensitiveDuplicates(qs) ==
    \A i \in 1..Len(qs) : \A j \in 1..Len(qs) :
        i # j => lower(qs[i]) # lower(qs[j])

\* C11: ExpansionTool.invoke returns a non-empty list that contains the input
\* query and has no two entries equal case-insensitively, for every input
\* query (also an empty or whitespace-only one) and every outcome of the
\* paraphrase call.
C11_NonEmptyWithQueryNoDuplicates ==
    (epc = "returned" /\ entry = "ExpansionTool.invoke")
        => /\ queries # <<>>
           /\ in_list(rq_question, queries)
           /\ NoCaseInsensitiveDuplicates(queries)

\* C12: when the paraphrase call fails, every expansion entry point returns
\* exactly the one-element list [question].
C12_FailureYieldsQuestionOnly ==
    (epc = "returned" /\ paraphrase.raises) => queries = <<rq_question>>

-----------------------------------------------------------------------------
(* Reciprocal rank fusion: ReciprocalRankFusion.fuse_results and            *)
(* fuse_with_weights (fusion_utils.py), the copy in tools/fusion_tool.py    *)
(* and VectorSearchTool._fuse_results.  A passage's content is [head,      *)
(* tail]: head stands for its first 100 characters, tail for the rest.     *)
(* Scores are exact: the integer n stands for the fraction n / Unit.       *)

\* most ranked lists handed to a fusion
MaxLists == 2

\* most passages in one ranked list
MaxListLen == 2

\* most passages in all the ranked lists of one call
MaxPassages == 4

\* ReciprocalRankFusion.__init__(self, k: float = 60.0)
rrf_k == 60

RECURSIVE gcd(_, _)
gcd(a, b) == IF b = 0 THEN a ELSE gcd(b, a % b)

RECURSIVE lcm_upto(_)
lcm_upto(r) ==
    IF r = 0 THEN rrf_k
    ELSE LET l == lcm_upto(r - 1)
         IN  (l * (rrf_k + r)) \div gcd(l, rrf_k + r)

\* the score 1.0: every 1 / (k + rank) is a whole number of 1 / Unit
Unit == lcm_upto(MaxListLen)

OneBasedTerm(weight, rank) == (weight * Unit) \div (rrf_k + rank + 1)

\* weight / (self.k + rank)
rrf_term(weight, rank) == (weight * Unit) \div (rrf_k + rank)

Passage(head, tail) == [head |-> head, tail |-> tail]

NoContent == Passage("", 0)

\* the last one is a text that reads like the key of a passage without content
Contents ==
    {NoContent, Passage("p", 0), Passage("p", 1), Passage("q", 0), Passage("doc_0_0", 0)}

\* a retrieved DocumentScore; fusion reads its content only
Retrieved(content) == [content |-> content]

RankedLists == SeqsUpTo({Retrieved(c) : c \in Contents}, MaxListLen)

RECURSIVE total_len(_)
total_len(results) ==
    IF results = <<>> THEN 0 ELSE Len(Head(results)) + total_len(Tail(results))

QueryResults ==
    {r \in SeqsUpTo(RankedLists, MaxLists) : total_len(r) <= MaxPassages}

\* str(n) inside the f-string of the key, for the small indices used here
str_of(n) ==
    CASE n = 0 -> "0" [] n = 1 -> "1" [] n = 2 -> "2" [] n = 3 -> "3"
      [] n = 4 -> "4" [] OTHER -> "5"

\* content_str[:100], or f"doc_{query_idx}_{rank}" when there is no content
doc_key(content, query_idx, rank) ==
    IF content # NoContent THEN content.head
    ELSE "doc_" \o str_of(query_idx) \o "_" \o str_of(rank)

AlwaysAppend(document_scores, key, content, term) ==
    Append(document_scores,
           [key |-> key, content |-> content, rrf_score |-> term, appearances |-> 1])

\* document_scores[doc_key] is created on first sight, then accumulated
add_term(document_scores, key, content, term) ==
    IF \E i \in 1..Len(document_scores) : document_scores[i].key = key
    THEN [i \in 1..Len(document_scores) |->
            IF document_scores[i].key = key
            THEN [document_scores[i] EXCEPT !.rrf_score = @ + term,
                                            !.appearances = @ + 1]
            ELSE document_scores[i]]
    ELSE Append(document_scores,
                [key |-> key, content |-> content, rrf_score |-> term,
                 appearances |-> 1])

\* the two nested enumerate loops, from position (query_idx, rank) on
RECURSIVE accumulate(_, _, _, _, _)
accumulate(results, ws, query_idx, rank, document_scores) ==
    IF query_idx >= Len(results) THEN document_scores
    ELSE IF rank >= Len(results[query_idx + 1])
         THEN accumulate(results, ws, query_idx + 1, 0, document_scores)
         ELSE LET content == results[query_idx + 1][rank + 1].content
              IN  accumulate(results, ws, query_idx, rank + 1,
                      add_term(document_scores,
                               doc_key(content, query_idx, rank), content,
                               rrf_term(ws[query_idx + 1], rank)))

\* content = f"Document from {appearances} queries" when it is empty; the key
\* is kept beside the fused document to state properties about it
fused_doc(info) ==
    [key |-> info.key,
     content |-> IF info.content # NoContent THEN info.content
                 ELSE Passage("Document from queries", info.appearances),
     score |-> info.rrf_score,
     rank |-> 0]

RanksFromOne(docs) == [i \in 1..Len(docs) |-> [docs[i] EXCEPT !.rank = i]]

\* for i, doc in enumerate(fused_results): doc.rank = i
assign_ranks(docs) == [i \in 1..Len(docs) |-> [docs[i] EXCEPT !.rank = i - 1]]

\* the fusion proper, shared by every variant
fuse(results, ws) ==
    LET document_scores == accumulate(results, ws, 0, 0, <<>>)
        fused_results == [i \in 1..Len(document_scores) |->
                              fused_doc(document_scores[i])]
    IN  assign_ranks(sort_desc(fused_results))

unit_weights(results) == [i \in 1..Len(results) |-> 1]

\* ReciprocalRankFusion.fuse_results (fusion_utils.py)
fuse_results(results) == [raised |-> FALSE, docs |-> fuse(results, unit_weights(results))]

\* FusionTool's ReciprocalRankFusion.fuse_results, VectorSearchTool._fuse_results
tool_fuse_results(results) ==
    [raised |-> FALSE, docs |-> fuse(results, unit_weights(results))]

\* [2.0] + [1.0] * (len(query_results) - 1)
default_weights(results) == <<2>> \o [i \in 1..(Len(results) - 1) |-> 1]

\* ReciprocalRankFusion.fuse_with_weights
fuse_with_weights(results, w) ==
    LET ws == IF w.given THEN w.list ELSE default_weights(results)
    IN  IF Len(ws) # Len(results)
        THEN [raised |-> TRUE, docs |-> <<>>]
        ELSE [raised |-> FALSE, docs |-> fuse(results, ws)]

\* the weights argument: unspecified, or a list one shorter, as long or one
\* longer than the number of lists
Given(list) == [given |-> TRUE, list |-> list]

WeightChoices(n) ==
    {NoWeights}
        \cup {Given(l) : l \in [1..n -> {1, 3}]}
        \cup {Given([i \in 1..m |-> 1]) : m \in {x \in {n - 1, n + 1} : x >= 0}}

InitFuse ==
    /\ epc = "call"
    /\ entry = ""
    /\ rq_question = <<>>
    /\ rq_history = FALSE
    /\ paraphrase = [raises |-> TRUE, lines |-> <<>>]
    /\ queries = <<>>
    /\ query_results \in QueryResults
    /\ weights = NoWeights
    /\ fused = NoFused
    /\ retrieval = NoRetrieval
    /\ _effective_query = "None"
    /\ IdlePlan
    /\ IdleRerank
    /\ IdleTurn
    /\ IdleLate

Fused(name, w, result) ==
    /\ epc = "call"
    /\ epc' = "returned"
    /\ entry' = name
    /\ weights' = w
    /\ fused' = result
    /\ UNCHANGED <<rq_question, rq_history, paraphrase, queries, query_results,
                   retrieval, _effective_query>>
    /\ UNCHANGED <<planVars, rerankVars, turnVars, lateVars>>

FuseResults == Fused("fuse_results", NoWeights, fuse_results(query_results))

ToolFuseResults ==
    Fused("_fuse_results", NoWeights, tool_fuse_results(query_results))

FuseWithWeights ==
    \E w \in WeightChoices(Len(query_results)) :
        Fused("fuse_with_weights", w, fuse_with_weights(query_results, w))

NextFuse ==
    \/ FuseResults
    \/ ToolFuseResults
    \/ FuseWithWeights

SpecFuse == InitFuse /\ [][NextFuse]_vars

\* every (query_idx, rank), 0-based, at which query_results holds a passage
\* with this dedup key
Occurrences(key) ==
    {pos \in (0..(Len(query_results) - 1)) \X (0..(MaxListLen - 1)) :
        /\ pos[2] < Len(query_results[pos[1] + 1])
        /\ doc_key(query_results[pos[1] + 1][pos[2] + 1].content, pos[1], pos[2]) = key}

\* the sum of 1 / (k + rank) over a set of positions
RECURSIVE SumOfReciprocals(_)
SumOfReciprocals(S) ==
    IF S = {} THEN 0
    ELSE LET pos == CHOOSE x \in S : TRUE
         IN  (Unit \div (rrf_k + pos[2])) + SumOfReciprocals(S \ {pos})

\* how early the loops first met the key
FirstInserted(key) ==
    LET at(pos) == pos[1] * (MaxListLen + 1) + pos[2]
        occ == Occurrences(key)
    IN  at(CHOOSE x \in occ : \A y \in occ : at(x) <= at(y))

FusionReturned == epc = "returned" /\ ~fused.raised

\* C13: the score of each document fuse_results returns is the sum of
\* 1 / (k + rank), k = 60, over every list and 0-based position at which a
\* passage with the document's dedup key stands, and nothing else.
C13_ScoreIsSumOfReciprocalRanks ==
    (FusionReturned /\ entry \in {"fuse_results", "_fuse_results"})
        => /\ \A r \in 0..(MaxListLen - 1) : Unit % (rrf_k + r) = 0
           /\ \A i \in 1..Len(fused.docs) :
                 fused.docs[i].score
                     = SumOfReciprocals(Occurrences(fused.docs[i].key))

\* C13 witness: a returned document whose key stands at two different ranks,
\* once under a content that differs beyond its first 100 characters.
C13_Witness ==
    /\ FusionReturned
    /\ entry = "fuse_results"
    /\ \E i \in 1..Len(fused.docs) :
          /\ fused.docs[i].key = "p"
          /\ \E a \in Occurrences(fused.docs[i].key) :
                \E b \in Occurrences(fused.docs[i].key) :
                    /\ a[2] # b[2]
                    /\ query_results[a[1] + 1][a[2] + 1].content
                           # query_results[b[1] + 1][b[2] + 1].content

\* C14: the fused list is sorted by score, descending; documents with equal
\* scores stand in the order their keys were first inserted; the rank field
\* of the element at index i is i (0-based).  For fuse_results and
\* fuse_with_weights.
C14_SortedStableRanked ==
    FusionReturned
        => /\ \A i \in 1..Len(fused.docs) : fused.docs[i].rank = i - 1
           /\ \A i \in 1..Len(fused.docs) : \A j \in (i + 1)..Len(fused.docs) :
                 /\ fused.docs[i].score >= fused.docs[j].score
                 /\ fused.docs[i].score = fused.docs[j].score
                       => FirstInserted(fused.docs[i].key)
                              < FirstInserted(fused.docs[j].key)

\* C14 witness: fuse_with_weights returned three documents or more, two of
\* them with one score and one with a score above theirs that was inserted
\* after them.
C14_Witness ==
    /\ FusionReturned
    /\ entry = "fuse_with_weights"
    /\ Len(fused.docs) >= 3
    /\ \E i \in 1..Len(fused.docs) : \E j \in (i + 1)..Len(fused.docs) :
          fused.docs[i].score = fused.docs[j].score
    /\ \E i \in 1..Len(fused.docs) : \E j \in (i + 1)..Len(fused.docs) :
          /\ fused.docs[i].score > fused.docs[j].score
          /\ FirstInserted(fused.docs[i].key) > FirstInserted(fused.docs[j].key)

\* C15: fuse_with_weights raises the validation error exactly when explicit
\* weights are passed whose length differs from the number of lists; with
\* weights unspecified it raises for no number of lists, zero included.
C15_RaisesOnlyOnExplicitMismatch ==
    (epc = "returned" /\ entry = "fuse_with_weights")
        => (fused.raised <=> (weights.given /\ Len(weights.list) # Len(query_results)))

-----------------------------------------------------------------------------
(* Retrieval entry points: PrivateDataAgent.run_rag_retrieval over          *)
(* AdvancedRAGPipeline (langchain_utils.py), VectorSearchTool.invoke and    *)
(* AgentPrivate.search.  Each runs rewrite (where it has one), expansion,   *)
(* one index search per query, fusion and rerank.                          *)

RetrievalQuestions == {<<>>, <<"a">>}

\* outcome of the LLM call that rewrites the question against the history
RewriteOutcomes ==
    {[raises |-> TRUE, text |-> <<>>],
     [raises |-> FALSE, text |-> <<>>],
     [raises |-> FALSE, text |-> <<" ", "b">>]}

\* the paraphrase replies of a retrieval call
RetrievalParaphrases ==
    {[raises |-> TRUE, lines |-> <<>>],
     [raises |-> FALSE, lines |-> <<<<"b">>>>],
     [raises |-> FALSE, lines |-> <<<<"a">>, <<"b">>>>]}

\* one index search: retriever.invoke(q), then on an exception
\* retriever.get_relevant_documents(q)
SearchOutcomes ==
    {[invoke |-> "ok", fallback |-> "unused",
      docs |-> <<Retrieved(Passage("p", 0)), Retrieved(Passage("q", 0))>>],
     [invoke |-> "ok", fallback |-> "unused",
      docs |-> <<Retrieved(Passage("p", 1)), Retrieved(NoContent)>>],
     [invoke |-> "raises", fallback |-> "ok",
      docs |-> <<Retrieved(Passage("q", 0))>>],
     [invoke |-> "raises", fallback |-> "raises", docs |-> <<>>]}

SearchRaises(out) == out.invoke = "raises" /\ out.fallback = "raises"

\* rerank_threshold = 0.5
HalfUnit == Unit \div 2

\* cross-encoder scores of the fused documents: all below the threshold, all
\* above it, or alternating
ScorePatterns(n) ==
    {[i \in 1..n |-> 0], [i \in 1..n |-> Unit],
     [i \in 1..n |-> IF i % 2 = 0 THEN Unit ELSE 0]}

\* what the index, the cross-encoder and the caller's top_k contribute
RerankChoices(n) ==
    {[scorer |-> sc, scores |-> ms, top_k |-> k] :
        sc \in {"ok"}, ms \in ScorePatterns(n), k \in 1..MaxTopK}
    \cup {[scorer |-> sc, scores |-> [i \in 1..n |-> 0], top_k |-> k] :
        sc \in {"none", "predict_raises"}, k \in 1..MaxTopK}

KeepOriginal(original_query, out) == original_query

\* AdvancedRAGPipeline.contextualize_query, AgentPrivate._contextualize
contextualize_query(original_query, out) ==
    IF out.raises THEN original_query
    ELSE IF strip(out.text) # <<>> THEN strip(out.text) ELSE original_query

\* AdvancedRAGPipeline.retrieve_documents
retrieve_documents(out) == IF SearchRaises(out) THEN <<>> ELSE out.docs

\* the fused documents as the rerankers read them
as_rerank_input(docs) ==
    [i \in 1..Len(docs) |-> [id |-> docs[i].key, score |-> docs[i].score]]

\* AdvancedRAGPipeline.apply_rrf
apply_rrf(results) == IF results = <<>> THEN <<>> ELSE fuse_results(results).docs

\* AdvancedRAGPipeline.apply_reranking
apply_reranking(docs, c) ==
    rerank_with_threshold(as_rerank_input(docs), HalfUnit, c.top_k, c.scorer, c.scores)

\* how many searches ran: all of them, or up to the first that raised
RECURSIVE searched_until_raise(_)
searched_until_raise(souts) ==
    IF souts = <<>> THEN 0
    ELSE IF SearchRaises(Head(souts)) THEN 1
    ELSE 1 + searched_until_raise(Tail(souts))

InitRetrieve ==
    /\ epc = "call"
    /\ entry = ""
    /\ rq_question \in RetrievalQuestions
    /\ rq_history \in BOOLEAN
    /\ paraphrase \in RetrievalParaphrases
    /\ queries = <<>>
    /\ query_results = <<>>
    /\ weights = NoWeights
    /\ fused = NoFused
    /\ retrieval = NoRetrieval
    /\ _effective_query \in {"None", <<"A">>}
    /\ IdlePlan
    /\ IdleRerank
    /\ IdleTurn
    /\ IdleLate

NoRewrite == [raises |-> FALSE, text |-> <<>>]

\* the rewrite call is made only when there is history
RewritesFor(history) == IF history THEN RewriteOutcomes ELSE {NoRewrite}

\* the end of a retrieval call: pos is "returned" or "raised"
RetrievalEnds(name, pos, qs, results, fused_docs, attr, result) ==
    /\ epc' = pos
    /\ entry' = name
    /\ queries' = qs
    /\ query_results' = results
    /\ fused' = [raised |-> FALSE, docs |-> fused_docs]
    /\ _effective_query' = attr
    /\ retrieval' = result
    /\ UNCHANGED <<rq_question, rq_history, paraphrase, weights>>
    /\ UNCHANGED <<planVars, rerankVars, turnVars, lateVars>>

\* the dict a retrieval entry point returns, with the strings it passed on
Report(rw, expanded, scored, eq, souts, results, fused_docs, final_docs, k) ==
    [raised |-> FALSE, rewrite |-> rw, expand_arg |-> expanded,
     rerank_arg |-> scored, effective_query |-> eq,
     searches |-> souts, retrieved_docs_count |-> total_len(results),
     fused_docs_count |-> Len(fused_docs), final_docs_count |-> Len(final_docs),
     rerank_top_k |-> k]

\* the call ended in an exception after these searches
Escaped(rw, expand_arg, souts) ==
    [NoRetrieval EXCEPT !.raised = TRUE, !.rewrite = rw,
                        !.expand_arg = expand_arg, !.searches = souts]

\* PrivateDataAgent.run_rag_retrieval over
\* AdvancedRAGPipeline.multi_query_retrieval, apply_rrf and apply_reranking
RunRagRetrieval ==
    /\ epc = "call"
    /\ \E rw \in RewritesFor(rq_history) :
         LET standalone_query ==
                 IF rq_history THEN contextualize_query(rq_question, rw)
                 ELSE rq_question
             all_queries == get_all_queries(standalone_query, paraphrase)
         IN  \E souts \in [1..Len(all_queries) -> SearchOutcomes] :
               LET results == [i \in 1..Len(all_queries) |->
                                   retrieve_documents(souts[i])]
                   fused_docs == apply_rrf(results)
                   \* self._effective_query after multi_query_retrieval
                   attr == standalone_query
                   effective_query ==
                       IF attr # "None" /\ attr # <<>> THEN attr ELSE rq_question
               IN  \E c \in RerankChoices(Len(fused_docs)) :
                     RetrievalEnds("run_rag_retrieval", "returned", all_queries,
                         results, fused_docs, attr,
                         Report(rw, standalone_query, effective_query,
                                effective_query, souts, results, fused_docs,
                                apply_reranking(fused_docs, c), c.top_k))

\* VectorSearchTool.invoke reranks with its own _rerank_documents,
\* AgentPrivate.search through the rerank tool
tool_rerank(name, docs, thr, k, sc, ms) ==
    IF name = "VectorSearchTool.invoke"
    THEN vector_search_rerank(docs, thr, k, sc, ms)
    ELSE rerank_tool_invoke(docs, thr, k, sc, ms)

\* the search loop, fusion and rerank of VectorSearchTool.invoke and
\* AgentPrivate.search: an exception of a search or of the reranker escapes
ToolRetrieval(name, rw, q, qs) ==
    \E souts \in [1..Len(qs) -> SearchOutcomes] :
        IF \E i \in 1..Len(qs) : SearchRaises(souts[i])
        THEN RetrievalEnds(name, "raised", qs, <<>>, <<>>, _effective_query,
                 Escaped(rw, q, SubSeq(souts, 1, searched_until_raise(souts))))
        ELSE LET results == [i \in 1..Len(qs) |-> souts[i].docs]
                 fused_docs == tool_fuse_results(results).docs
             IN  \E c \in RerankChoices(Len(fused_docs)) :
                   LET rr == tool_rerank(name, as_rerank_input(fused_docs),
                                         HalfUnit, c.top_k, c.scorer, c.scores)
                   IN  IF rr.raised
                       THEN RetrievalEnds(name, "raised", qs, results, fused_docs,
                                _effective_query, Escaped(rw, q, souts))
                       ELSE RetrievalEnds(name, "returned", qs, results,
                                fused_docs, _effective_query,
                                Report(rw, q, q, q, souts, results, fused_docs,
                                       rr.docs, c.top_k))

\* VectorSearchTool.invoke
VectorSearchToolInvoke ==
    /\ epc = "call"
    /\ ToolRetrieval("VectorSearchTool.invoke", NoRewrite, rq_question,
                     _expand_query(rq_question, paraphrase))

\* AgentPrivate.search
AgentPrivateSearch ==
    /\ epc = "call"
    /\ \E rw \in RewritesFor(rq_history) :
         LET q == IF rq_history THEN contextualize_query(rq_question, rw)
                  ELSE rq_question
         IN  ToolRetrieval("AgentPrivate.search", rw, q,
                           expansion_tool_invoke(q, paraphrase))

NextRetrieve ==
    \/ RunRagRetrieval
    \/ VectorSearchToolInvoke
    \/ AgentPrivateSearch

SpecRetrieve == InitRetrieve /\ [][NextRetrieve]_vars

\* the dedup keys of all passages of query_results
DistinctKeys ==
    {doc_key(query_results[i][j].content, i - 1, j - 1) :
        <<i, j>> \in {p \in (1..Len(query_results)) \X (1..MaxListLen) :
                         p[2] <= Len(query_results[p[1]])}}

\* C16: in what every retrieval call returns, retrieved_docs_count is the sum
\* of the lengths of the per-query result lists, fused_docs_count the number
\* of distinct dedup keys among them (so fused <= retrieved, with equality
\* when no two passages share a key), and final_docs_count is at most
\* min(fused_docs_count, rerank top-K).
C16_CountsConsistent ==
    (epc = "returned" /\ entry \in {"run_rag_retrieval", "VectorSearchTool.invoke",
                                    "AgentPrivate.search"})
        => /\ retrieval.retrieved_docs_count = total_len(query_results)
           /\ retrieval.fused_docs_count = Cardinality(DistinctKeys)
           /\ retrieval.fused_docs_count <= retrieval.retrieved_docs_count
           /\ retrieval.final_docs_count
                  <= Min(retrieval.fused_docs_count, retrieval.rerank_top_k)

\* C16 witness: a call over several queries whose passages share keys, with
\* more fused documents than the rerank top-K lets through.
C16_Witness ==
    /\ epc = "returned"
    /\ entry = "VectorSearchTool.invoke"
    /\ Len(query_results) >= 2
    /\ retrieval.fused_docs_count < retrieval.retrieved_docs_count
    /\ retrieval.final_docs_count >= 1
    /\ retrieval.final_docs_count < retrieval.fused_docs_count

\* a search of the call raised while another one succeeded
OneSearchFailed ==
    /\ epc \in {"returned", "raised"}
    /\ \E i \in 1..Len(retrieval.searches) : SearchRaises(retrieval.searches[i])
    /\ \E i \in 1..Len(retrieval.searches) : ~SearchRaises(retrieval.searches[i])

\* C17: when the index search of one expanded query raises and the others
\* succeed, the retrieval call does not raise: the failed query contributes
\* an empty list and fusion and rerank run over the others' lists.
C17_FailedSearchIsEmptyList ==
    OneSearchFailed
        => /\ epc = "returned"
           /\ Len(query_results) = Len(queries)
           /\ \A i \in 1..Len(retrieval.searches) :
                 query_results[i] = IF SearchRaises(retrieval.searches[i]) THEN <<>>
                                    ELSE retrieval.searches[i].docs
           /\ retrieval.fused_docs_count = Cardinality(DistinctKeys)

\* the rewrite of the question against the history succeeded
RewriteSucceeded ==
    rq_history /\ ~retrieval.rewrite.raises /\ strip(retrieval.rewrite.text) # <<>>

\* C18: within one retrieval call the string passed to the reranker is the
\* string passed to query expansion (the rewritten question when there is
\* history and the rewrite succeeded, otherwise the unmodified question), and
\* it is the effective query returned to the caller.
C18_RerankQueryIsExpansionQuery ==
    (epc = "returned" /\ entry \in {"run_rag_retrieval", "AgentPrivate.search"})
        => /\ retrieval.rerank_arg = retrieval.expand_arg
           /\ retrieval.effective_query = retrieval.expand_arg
           /\ retrieval.expand_arg = IF RewriteSucceeded
                                     THEN strip(retrieval.rewrite.text)
                                     ELSE rq_question

\* C18 witness: run_rag_retrieval returned after a successful rewrite, so the
\* three strings differ from the caller's question.
C18_Witness ==
    /\ epc = "returned"
    /\ entry = "run_rag_retrieval"
    /\ RewriteSucceeded
    /\ retrieval.rerank_arg # rq_question
    /\ retrieval.final_docs_count >= 1

\* the calls an empty question must not reach: the planner LLM, the tools and
\* the synthesizer
BeyondInputCheck ==
    {"planner", "vector_search", "calculator", "weather", "synthesizer",
     "direct_answer"}

\* C19: answer() called with an empty or whitespace-only question returns at
\* once: the planner LLM, every tool call (vector search included) and the
\* synthesizer are not invoked.
C19_EmptyQuestionShortCircuits ==
    strip(question) = <<>>
        => \A n \in 1..Len(calls) : calls[n].tool \notin BeyondInputCheck

\* C20: every weather task plan_tasks returns carries a location field, a
\* non-empty string or an explicit null, never absent; also when the
\* planner's task object had no location key.
C20_WeatherTaskHasLocation ==
    pc = "returned"
        => \A i \in 1..Len(planned) :
              planned[i].tool = "weather"
                  => \/ planned[i].location.k = "null"
                     \/ /\ planned[i].location.k = "str"
                        /\ strip(planned[i].location.s) # <<>>

\* ---------------------------------------------------------------------------
\* The location handed to the weather tool (orchestrate_answer, lines 250-273)

\* a recorded retrieval subtask whose first snippet names a place
MentionsPlace(sub) ==
    /\ sub.type = "rag"
    /\ sub.snippets # <<>>
    /\ capture_location(sub.snippets[1]) \notin {"none", ""}

\* the earlier retrieval subtasks of the turn that mention a place
Mentions == { k \in 1..Len(subtasks) : MentionsPlace(subtasks[k]) }

LastMention == CHOOSE k \in Mentions : \A j \in Mentions : j <= k

\* the weather task of this step is called now
WeatherCalled ==
    /\ tpc = "loop"
    /\ Len(calls') = Len(calls) + 1
    /\ calls'[Len(calls')].tool = "weather"

PlannedLocation == tasks[task_idx].location.k = "str"

\* C21: in orchestrate_answer a weather task whose planned location is null
\* is called with the place captured from the first snippet of the most
\* recent earlier retrieval task of the turn that mentions one, and with no
\* location when no earlier retrieval mentions one; a planned location that
\* is not null always wins.
C21_WeatherLocationResolved ==
    [][WeatherCalled =>
         calls'[Len(calls')].loc =
            IF PlannedLocation
            THEN [plan |-> tasks[task_idx].location.s, captured |-> "none"]
            ELSE IF Mentions = {} THEN NoLocation
            ELSE [plan |-> <<>>,
                  captured |-> capture_location(subtasks[LastMention].snippets[1])]]_vars

\* the part of C21 that the code keeps: a planned location always wins
C21_PlannedLocationWins ==
    [][WeatherCalled /\ PlannedLocation =>
         calls'[Len(calls')].loc =
            [plan |-> tasks[task_idx].location.s, captured |-> "none"]]_vars

\* ---------------------------------------------------------------------------
\* Which passages fusion merges (fusion_utils.py 39-63, fusion_tool.py 19-44)

\* the bucket C22 describes: the first 100 characters of a content, or the
\* position of a passage that has no content
ClaimedBucket(content, query_idx, rank) ==
    IF content # NoContent
    THEN [by |-> "content", text |-> content.head, q |-> 0, r |-> 0]
    ELSE [by |-> "position", text |-> "", q |-> query_idx, r |-> rank]

ClaimedBuckets ==
    {ClaimedBucket(query_results[i][j].content, i - 1, j - 1) :
        <<i, j>> \in {p \in (1..Len(query_results)) \X (1..MaxListLen) :
                         p[2] <= Len(query_results[p[1]])}}

\* C22: fuse_results merges two passages exactly when their contents share
\* the first 100 characters; a passage with empty content is never merged
\* with another one (it has the bucket of its own list index and rank); the
\* fused list has one entry per distinct key; no lists give the empty list.
C22_MergedIffSameFirstHundred ==
    (FusionReturned /\ entry \in {"fuse_results", "_fuse_results"})
        => /\ Len(fused.docs) = Cardinality(ClaimedBuckets)
           /\ \A i \in 1..Len(fused.docs) :
                 /\ fused.docs[i].content.head = "Document from queries"
                        => fused.docs[i].content.tail = 1
                 /\ \A j \in 1..Len(fused.docs) :
                        i # j => fused.docs[i].key # fused.docs[j].key
           /\ (query_results = <<>> => fused.docs = <<>>)

\* the part of C22 that the code keeps: one fused entry per distinct value of
\* doc_key, and nothing for no lists
C22_OneEntryPerDocKey ==
    (FusionReturned /\ entry \in {"fuse_results", "_fuse_results"})
        => /\ Len(fused.docs) = Cardinality(DistinctKeys)
           /\ {fused.docs[i].key : i \in 1..Len(fused.docs)} = DistinctKeys
           /\ (query_results = <<>> => fused.docs = <<>>)

\* ---------------------------------------------------------------------------
\* The in-turn view of the history (orchestrate_answer, lines 214-286)

\* the loop body has run for the task at task_idx
TaskDone == tpc = "loop" /\ task_idx' = task_idx + 1

\* the task at task_idx is a retrieval that returned no snippets
EmptyRetrievalDone ==
    /\ tasks[task_idx].tool = "rag"
    /\ Len(subtasks') = Len(subtasks) + 1
    /\ subtasks'[Len(subtasks')].snippets = <<>>

\* C23: during the task loop the local in-turn view is extended only after
\* a retrieval or weather task that produced something to resolve; after a
\* calculator task, a direct task, or a retrieval task that returned no
\* snippets it is unchanged.
C23_ViewExtendedOnlyByEntities ==
    [][(TaskDone /\ (tasks[task_idx].tool \in {"calculator", "direct"}
                        \/ EmptyRetrievalDone))
            => local_history' = local_history]_vars

\* the part of C23 that the code keeps: a direct task and a retrieval task
\* without snippets leave the view alone
C23_DirectOrEmptyRetrievalKeepsView ==
    [][(TaskDone /\ (tasks[task_idx].tool = "direct" \/ EmptyRetrievalDone))
            => local_history' = local_history]_vars

\* ---------------------------------------------------------------------------
\* Planner calls of one turn (decide_tool 167-189, orchestrate_answer 199-206)

PlannerCalls(cs) == Cardinality({n \in 1..Len(cs) : cs[n].tool = "planner"})

\* answer() enters orchestrate_answer and its loop is set up
LoopEntered == tpc = "decided" /\ tpc' = "loop"

\* C24: in one turn of answer() plan_tasks, one planner LLM call, is invoked
\* exactly once, and the task list that is executed is the one the route
\* was decided on.
C24_PlannedOnce ==
    [][LoopEntered => (PlannerCalls(calls') = 1 /\ tasks' = decision.tasks)]_vars

\* the part of C24 that the code keeps: a turn routed as a single task
\* plans at most once (not at all for a blank question)
C24_SingleTaskPlansOnce ==
    (tpc \in {"decided", "done", "raised"} /\ decision.tool # "multi")
        => PlannerCalls(calls) <= 1

\* ---------------------------------------------------------------------------
\* The route of a task tagged direct (answer 372-429, orchestrate_answer 219)

ToolCalls == {"vector_search", "calculator", "weather"}

\* C25: a task the planner tags direct, the planning-failure fallback
\* included, goes to the direct-answer path: no vector search, calculator or
\* weather call is made for it and tools_used lists no tool for it.
C25_DirectTaskUsesNoTool ==
    /\ (tpc \in {"done", "raised"} /\ decision.tool = "direct" /\ decision.tasks # <<>>)
          => /\ \A n \in 1..Len(calls) : calls[n].tool \notin ToolCalls
             /\ tools_used = <<>>
    /\ tpc = "loop"
          => \A n \in 1..Len(calls) :
                (calls[n].tool \in ToolCalls /\ calls[n].task >= 1)
                    => tasks[calls[n].task].tool # "direct"

\* the part of C25 that the code keeps: inside a multi-task turn a direct
\* task makes no call and adds nothing to tools_used
C25_DirectTaskInLoopUsesNoTool ==
    [][(TaskDone /\ tasks[task_idx].tool = "direct")
            => (calls' = calls /\ tools_used' = tools_used)]_vars

\* ---------------------------------------------------------------------------
\* The caller's history (orchestrate_answer, lines 199-302)

\* C29: orchestrate_answer never modifies the chat_history list of its
\* caller; what the loop adds exists only in the turn-local copy.
C29_CallerHistoryUntouched ==
    [][(tpc \in {"decided", "loop"}) => chat_history' = chat_history]_vars

\* C29 witness: the loop has extended the local view of a non-empty history
C29_Witness ==
    /\ tpc = "done"
    /\ decision.tool = "multi"
    /\ chat_history # <<>>
    /\ Len(local_history) > Len(chat_history)

-----------------------------------------------------------------------------
(* The local orchestrator's aggregation over its retrieval subtasks        *)
(* (src/api/agent_manager.py 310-359, agents/agent_private.py 84-98).      *)
(* The loop body and the aggregation are functions of what the tools       *)
(* returned; they are applied to every short list of sub-questions.        *)

MaxChunks == 3

\* merged_docs[:20]
MaxFinalDocuments == 20

\* dict.get(key, default)
get(d, key, default) == IF key \in DOMAIN d THEN d[key] ELSE default

\* retrieved, fused and final counts of one AgentPrivate.search call; the
\* rerank call keeps at most top_k = 10 documents
SearchSizes == { <<0, 0, 0>>, <<3, 2, 1>>, <<12, 11, 10>> }

\* AgentPrivate.search lines 84-98: the returned dict
search_return(src, sizes) ==
    [original_query |-> src,
     expanded_queries |-> <<>>,
     final_documents |-> [i \in 1..sizes[3] |-> [src |-> src, n |-> i]],
     retrieved_docs_count |-> sizes[1],
     fused_docs_count |-> sizes[2],
     final_docs_count |-> sizes[3]]

\* one sub-question: the branch of the loop it takes and, for the retrieval
\* branch, the sizes of its search
Chunks ==
    {[kind |-> "rag", sizes |-> z] : z \in SearchSizes}
        \cup {[kind |-> k, sizes |-> <<0, 0, 0>>] : k \in {"weather", "calculator"}}

\* lines 312-320: the subtask built from rag = self._private.search(...)
rag_subtask(rag) ==
    [type |-> "rag",
     meta |-> get(rag, "meta", <<>>),
     final_documents |-> get(rag, "final_documents", <<>>)]

\* lines 281-320: one subtask per sub-question
local_subtasks(cands) ==
    [i \in 1..Len(cands) |->
        IF cands[i].kind = "rag" THEN rag_subtask(search_return(i, cands[i].sizes))
        ELSE [type |-> cands[i].kind, meta |-> <<>>, final_documents |-> <<>>]]

\* lines 343-350: the loop over the subtasks
RECURSIVE aggregate(_, _)
aggregate(subs, acc) ==
    IF subs = <<>> THEN acc
    ELSE LET st == Head(subs)
         IN  aggregate(Tail(subs),
                IF st.type # "rag" THEN acc
                ELSE [acc EXCEPT
                        !.retrieved_docs_count = @ + get(st.meta, "retrieved_docs_count", 0),
                        !.fused_docs_count = @ + get(st.meta, "fused_docs_count", 0),
                        !.final_docs_count = @ + get(st.meta, "final_docs_count", 0),
                        !.final_documents = @ \o st.final_documents])

\* lines 334-367: meta and final_documents are returned only with a rag subtask
local_result(subs) ==
    IF \E i \in 1..Len(subs) : subs[i].type = "rag"
    THEN LET agg == aggregate(subs, [NoAggregate EXCEPT !.has_meta = TRUE])
         IN  [agg EXCEPT !.final_documents =
                            SubSeq(@, 1, Min(Len(@), MaxFinalDocuments))]
    ELSE NoAggregate

InitAggregate ==
    /\ apc = "call"
    /\ candidates \in SeqsUpTo(Chunks, MaxChunks)
    /\ aggregated = NoAggregate
    /\ IdlePlan
    /\ IdleRerank
    /\ IdleTurn
    /\ IdleRetr
    /\ IdleCalc
    /\ IdlePipe
    /\ IdleWeb

\* orchestrate_answer of agent_manager.py, from the loop to the return
LocalOrchestrate ==
    /\ apc = "call"
    /\ apc' = "returned"
    /\ aggregated' = local_result(local_subtasks(candidates))
    /\ UNCHANGED candidates
    /\ UNCHANGED <<planVars, rerankVars, turnVars, retrVars, calcVars, pipeVars, webVars>>

NextAggregate == LocalOrchestrate

SpecAggregate == InitAggregate /\ [][NextAggregate]_vars

\* the positions of the retrieval sub-questions
RagChunks == {i \in 1..Len(candidates) : candidates[i].kind = "rag"}

RECURSIVE SumSizes(_, _)
SumSizes(S, which) ==
    IF S = {} THEN 0
    ELSE LET i == CHOOSE x \in S : TRUE
         IN  candidates[i].sizes[which] + SumSizes(S \ {i}, which)

\* the final documents of the searches, concatenated in task order
RECURSIVE ConcatFinal(_)
ConcatFinal(i) ==
    IF i > Len(candidates) THEN <<>>
    ELSE (IF candidates[i].kind = "rag"
          THEN search_return(i, candidates[i].sizes).final_documents
          ELSE <<>>) \o ConcatFinal(i + 1)

C26_FinalDocumentsAreFirstTwenty ==
    (apc = "returned" /\ RagChunks # {})
        => /\ aggregated.has_meta
           /\ aggregated.final_documents
                  = SubSeq(ConcatFinal(1), 1, Min(Len(ConcatFinal(1)), MaxFinalDocuments))

-----------------------------------------------------------------------------
(* One CalculatorTool instance and the calls made on it                    *)
(* (src/api/tools/calculator_tool.py 20-66, mcp/providers.py 14-25).       *)
(* The texts are over Chars: none contains a hint word of _NL_CALC_HINTS   *)
(* or matches the "sum of a and b" / "a plus b" patterns of lines 27-34.   *)

MaxCalcCalls == 3

CalcTexts ==
    { <<>>, <<"x">>, <<"7", "+", "7">>, <<"7", "+", "7", "+", "7">>,
      <<"i", "s", " ", "7", "+", "7", "?">>, <<"7", "+">>, <<" ", "7", " ", "7">>,
      <<"7", "7", "+", "7">> }

\* re.sub(r"\s+", " ", candidate)
RECURSIVE collapse_spaces(_)
collapse_spaces(s) ==
    IF Len(s) < 2 THEN s
    ELSE IF s[1] = " " /\ s[2] = " " THEN collapse_spaces(Tail(s))
    ELSE <<s[1]>> \o collapse_spaces(Tail(s))

has_op(s) == \E i \in 1..Len(s) : s[i] \in OpChars

has_digit(s) == \E i \in 1..Len(s) : s[i] \in Digits

\* CalculatorTool._extract_math_expression lines 35-42; <<>> stands for None
_extract_math_expression(text) ==
    LET candidate == collapse_spaces(strip(SelectSeq(text, IsSafeChar)))
    IN  IF has_op(candidate) /\ has_digit(candidate) THEN candidate ELSE <<>>

\* the tokens of an expression: "+" or the value of a run of digits
RECURSIVE tokens_of(_, _)
tokens_of(s, run) ==
    IF s = <<>> THEN (IF run = <<>> THEN <<>> ELSE <<[num |-> TRUE, v |-> run[1]]>>)
    ELSE IF Head(s) \in Digits
         THEN tokens_of(Tail(s), IF run = <<>> THEN <<7>> ELSE <<10 * run[1] + 7>>)
         ELSE (IF run = <<>> THEN <<>> ELSE <<[num |-> TRUE, v |-> run[1]]>>)
              \o (IF Head(s) = "+" THEN <<[num |-> FALSE, v |-> 0]>> ELSE <<>>)
              \o tokens_of(Tail(s), <<>>)

RECURSIVE sum_of(_)
sum_of(toks) == IF toks = <<>> THEN 0 ELSE Head(toks).v + sum_of(Tail(toks))

Unsupported == [error |-> "unsupported expression", result |-> <<>>]

\* eval(expr, {"__builtins__": {}}, {}) lines 62-66, for digits, "+" and
\* blanks: a sum of numbers, each with any number of unary "+" signs
eval_expr(expr) ==
    LET toks == tokens_of(expr, <<>>)
        ok   == /\ toks # <<>>
                /\ toks[Len(toks)].num
                /\ \A i \in 1..(Len(toks) - 1) : ~(toks[i].num /\ toks[i + 1].num)
    IN  IF ok THEN [error |-> "none", result |-> <<sum_of(toks)>>]
        ELSE [error |-> "invalid syntax", result |-> <<>>]

\* a calculator that always extracts from its argument
FromArgumentOnly(last, expression) ==
    LET expr == _extract_math_expression(strip(expression))
    IN  IF expr = <<>> THEN Unsupported ELSE eval_expr(expr)

\* CalculatorTool.use_calculator lines 56-66; _SAFE_PATTERN matches every
\* non-empty text of safe characters
use_calculator(last, expression) ==
    LET kept == strip(last)
        expr == IF kept # <<>> THEN kept
                ELSE _extract_math_expression(strip(expression))
    IN  IF expr = <<>> \/ \E i \in 1..Len(expr) : ~IsSafeChar(expr[i])
        THEN Unsupported
        ELSE eval_expr(expr)

\* CalculatorTool.looks_like_calculation lines 44-54: [found, expr]
looks_like_calculation(quest) ==
    LET text == lower(strip(quest))
        expr == _extract_math_expression(text)
    IN  IF ~(has_op(text) /\ has_digit(text)) THEN [found |-> FALSE, expr |-> <<>>]
        ELSE [found |-> expr # <<>>, expr |-> expr]

InitCalc ==
    /\ kpc = 0
    /\ _last_expr = <<>>
    /\ calc_call = NoCalcCall
    /\ IdlePlan
    /\ IdleRerank
    /\ IdleTurn
    /\ IdleRetr
    /\ IdleAgg
    /\ IdlePipe
    /\ IdleWeb

\* CalculatorProvider.looks_like -> looks_like_calculation
LooksLikeCalculation ==
    /\ kpc < MaxCalcCalls
    /\ \E q \in CalcTexts :
          /\ _last_expr' = IF looks_like_calculation(q).found
                           THEN looks_like_calculation(q).expr ELSE _last_expr
          /\ calc_call' = [op |-> "looks_like_calculation", arg |-> q,
                           out |-> [error |-> "none", result |-> <<>>]]
    /\ kpc' = kpc + 1
    /\ UNCHANGED <<planVars, rerankVars, turnVars, retrVars, aggVars, pipeVars, webVars>>

\* CalculatorProvider.invoke -> use_calculator
UseCalculator ==
    /\ kpc < MaxCalcCalls
    /\ \E e \in CalcTexts :
          calc_call' = [op |-> "use_calculator", arg |-> e,
                        out |-> use_calculator(_last_expr, e)]
    /\ kpc' = kpc + 1
    /\ UNCHANGED _last_expr
    /\ UNCHANGED <<planVars, rerankVars, turnVars, retrVars, aggVars, pipeVars, webVars>>

NextCalc == LooksLikeCalculation \/ UseCalculator

SpecCalc == InitCalc /\ [][NextCalc]_vars

\* C27: over any sequence of looks_like_calculation and use_calculator
\* calls on one CalculatorTool, the result of use_calculator(e) depends only
\* on e: it evaluates the expression extracted from e, or returns the error
\* 'unsupported expression' with result null, and never evaluates an
\* expression remembered from an earlier call.
C27_ResultDependsOnArgumentOnly ==
    calc_call.op = "use_calculator"
        => calc_call.out = FromArgumentOnly(<<>>, calc_call.arg)

\* the part of C27 that the code keeps: as long as no looks_like_calculation
\* call has found an expression, use_calculator works on its argument
C27_FreshInstanceUsesArgument ==
    (calc_call.op = "use_calculator" /\ _last_expr = <<>>)
        => calc_call.out = FromArgumentOnly(<<>>, calc_call.arg)

-----------------------------------------------------------------------------
(* Two retrieval calls on one AdvancedRAGPipeline instance                 *)
(* (src/api/langchain_utils.py 190-213 and 323-338, private_agent.py       *)
(* 19-28).  Each call first runs multi_query_retrieval, which writes the   *)
(* attribute _effective_query of the instance, and later reads that        *)
(* attribute for apply_reranking; the other call may run in between.       *)

PipeQuestions == {<<"a">>, <<"x">>}

\* the arguments of one call and the outcome of its rewrite LLM call
PipeCalls ==
    {[entry |-> e, q |-> q, history |-> h, rewrite |-> rw] :
        e \in {"run_rag_retrieval", "run_pipeline"}, q \in PipeQuestions,
        h \in BOOLEAN, rw \in RewriteOutcomes}

InitInterleave ==
    /\ icalls \in [Callers -> {c \in PipeCalls : c.rewrite \in RewritesFor(c.history)}]
    /\ ipc = [c \in Callers |-> "start"]
    /\ computed_query = [c \in Callers |-> <<>>]
    /\ rerank_query = [c \in Callers |-> <<>>]
    /\ IdlePlan
    /\ IdleRerank
    /\ IdleTurn
    /\ IdleRetr
    /\ IdleAgg
    /\ IdleCalc
    /\ IdleWeb

\* multi_query_retrieval lines 196-202: the effective query of this call is
\* stored on the instance
MultiQueryRetrieval(c) ==
    /\ ipc[c] = "start"
    /\ LET effective == IF icalls[c].history
                        THEN contextualize_query(icalls[c].q, icalls[c].rewrite)
                        ELSE icalls[c].q
       IN  /\ _effective_query' = effective
           /\ computed_query' = [computed_query EXCEPT ![c] = effective]
    /\ ipc' = [ipc EXCEPT ![c] = "retrieved"]
    /\ UNCHANGED <<icalls, rerank_query>>
    /\ UNCHANGED <<epc, entry, rq_question, rq_history, paraphrase, queries,
                   query_results, weights, fused, retrieval>>
    /\ UNCHANGED <<planVars, rerankVars, turnVars, aggVars, calcVars, webVars>>

\* run_pipeline lines 337-338, run_rag_retrieval lines 27-28:
\* getattr(pipeline, "_effective_query", None) or question, then rerank
ApplyReranking(c) ==
    /\ ipc[c] = "retrieved"
    /\ rerank_query' = [rerank_query EXCEPT ![c] =
            IF _effective_query # <<>> THEN _effective_query ELSE icalls[c].q]
    /\ ipc' = [ipc EXCEPT ![c] = "done"]
    /\ UNCHANGED <<icalls, computed_query>>
    /\ UNCHANGED retrVars
    /\ UNCHANGED <<planVars, rerankVars, turnVars, aggVars, calcVars, webVars>>

NextInterleave ==
    \E c \in Callers : MultiQueryRetrieval(c) \/ ApplyReranking(c)

SpecInterleave == InitInterleave /\ [][NextInterleave]_vars

\* C28: when two retrieval calls interleave on one AdvancedRAGPipeline
\* instance, the rerank of each call uses the effective query that this
\* same call computed.
C28_RerankUsesOwnEffectiveQuery ==
    \A c \in Callers : ipc[c] = "done" => rerank_query[c] = computed_query[c]

\* the part of C28 that the code keeps: a call that finds the attribute as
\* it wrote it reranks with its own effective query
C28_UndisturbedCallUsesOwnQuery ==
    [][\A c \in Callers :
          (ipc[c] = "retrieved" /\ ipc'[c] = "done"
              /\ _effective_query = computed_query[c])
            => rerank_query'[c] = computed_query[c]]_vars

-----------------------------------------------------------------------------
(* The WebAgent graph: planner -> architect -> coder, the coder routed     *)
(* back to itself until its status is DONE                                 *)
(* (src/api/agents/Web_App_Agent/agent.py 52-88, 98-189).  The graph is a  *)
(* StateGraph(dict): what a node returns is the state of the next node.    *)

MaxSteps == 3

\* graph.ainvoke(initial_state, {"recursion_limit": 100})
recursion_limit == 100

\* outcome of an LLM call: a reply, no structured output, or an exception
WebLlmOutcomes == {"ok", "none", "raise"}

StateOf(idx, st, tools) == [coder_state |-> idx, status |-> st, mcp_tools |-> tools]

\* lines 71-76: the graph starts at its entry point with the tools of the agent
InitWeb ==
    /\ node = "planner"
    /\ implementation_steps = 0
    /\ mcp_tools \in {"empty", "some"}
    /\ graph_state = StateOf(-1, "", mcp_tools)
    /\ steps_run = <<>>
    /\ supersteps = 0
    /\ IdlePlan
    /\ IdleRerank
    /\ IdleTurn
    /\ IdleRetr
    /\ IdleAgg
    /\ IdleCalc
    /\ IdlePipe

\* a node is run only below the recursion limit
Runs(name) == node = name /\ supersteps < recursion_limit

\* planner_agent lines 98-110
PlannerAgent ==
    /\ Runs("planner")
    /\ \E llm \in WebLlmOutcomes :
          IF llm = "ok"
          THEN node' = "architect" /\ graph_state' = StateOf(-1, "", graph_state.mcp_tools)
          ELSE node' = "LLMError" /\ UNCHANGED graph_state
    /\ supersteps' = supersteps + 1
    /\ UNCHANGED <<implementation_steps, mcp_tools, steps_run>>
    /\ UNCHANGED <<planVars, rerankVars, turnVars, retrVars, aggVars, calcVars, pipeVars>>

\* architect_agent lines 113-126: the reply holds the implementation steps
ArchitectAgent ==
    /\ Runs("architect")
    /\ \E llm \in WebLlmOutcomes, n \in 0..MaxSteps :
          IF llm = "ok"
          THEN /\ node' = "coder"
               /\ implementation_steps' = n
               /\ graph_state' = StateOf(-1, "", graph_state.mcp_tools)
          ELSE /\ node' = "LLMError"
               /\ UNCHANGED <<implementation_steps, graph_state>>
    /\ supersteps' = supersteps + 1
    /\ UNCHANGED <<mcp_tools, steps_run>>
    /\ UNCHANGED <<planVars, rerankVars, turnVars, retrVars, aggVars, calcVars, pipeVars>>

\* lines 182-186: END when the status is DONE, else the coder again
route(st) == IF st.status = "DONE" THEN "END" ELSE "coder"

\* coder_agent lines 129-169
CoderAgent ==
    /\ Runs("coder")
    /\ LET idx   == IF graph_state.coder_state = -1 THEN 0 ELSE graph_state.coder_state
           tools == IF graph_state.mcp_tools = "absent" THEN "empty"
                    ELSE graph_state.mcp_tools
       IN  IF idx >= implementation_steps
           THEN /\ graph_state' = StateOf(idx, "DONE", "absent")
                /\ node' = route(graph_state')
                /\ UNCHANGED steps_run
           ELSE IF tools # "some"
           THEN /\ graph_state' = StateOf(idx, "ERROR", "absent")
                /\ node' = route(graph_state')
                /\ UNCHANGED steps_run
           ELSE \E react \in {"ok", "raise"} :
                  IF react = "raise"
                  THEN node' = "LLMError" /\ UNCHANGED <<graph_state, steps_run>>
                  ELSE /\ steps_run' = Append(steps_run, idx)
                       /\ graph_state' =
                             IF idx + 1 >= implementation_steps
                             THEN StateOf(idx + 1, "DONE", "absent")
                             ELSE StateOf(idx + 1, "WORKING", graph_state.mcp_tools)
                       /\ node' = route(graph_state')
    /\ supersteps' = supersteps + 1
    /\ UNCHANGED <<implementation_steps, mcp_tools>>
    /\ UNCHANGED <<planVars, rerankVars, turnVars, retrVars, aggVars, calcVars, pipeVars>>

\* the graph stops with GraphRecursionError at the recursion limit; invoke
\* (lines 84-88) reports it as "Error in WebAgent"
RecursionLimit ==
    /\ node \in {"planner", "architect", "coder"}
    /\ supersteps >= recursion_limit
    /\ node' = "GraphRecursionError"
    /\ UNCHANGED <<implementation_steps, mcp_tools, graph_state, steps_run, supersteps>>
    /\ UNCHANGED <<planVars, rerankVars, turnVars, retrVars, aggVars, calcVars, pipeVars>>

NextWeb == PlannerAgent \/ ArchitectAgent \/ CoderAgent \/ RecursionLimit

SpecWeb == InitWeb /\ [][NextWeb]_vars

\* graph.ainvoke runs the next node until the graph ends or raises
SpecWebLive == SpecWeb /\ WF_vars(NextWeb)

AllStepsInOrder == steps_run = [i \in 1..implementation_steps |-> i - 1]

\* C30: the coder loop always terminates by reaching END: for every plan
\* and every set of MCP tools, none included, the coder runs each step once,
\* in the order 0..n-1, and then reports DONE; unless an LLM call fails, no
\* run stays in the coder or leaves it another way.
C30_CoderReachesEnd ==
    /\ (node = "coder") ~> (node \in {"END", "LLMError"})
    /\ [](node = "END" => AllStepsInOrder)

\* the part of C30 that the code keeps: END is reached only after every
\* step has run once, in order
C30_EndOnlyAfterAllSteps == node = "END" => AllStepsInOrder

\* the part of C30 that the code keeps: every run stops, at END or with an
\* exception
C30_GraphStops ==
    <>(node \in {"END", "LLMError", "GraphRecursionError"})

====
